---------------------------- MODULE Spec2Model ----------------------------
(***************************************************************************)
(* A model of the core of the rayquaza Cairo virtual machine               *)
(* (crates/vm): the write-once Segment store, the Value arithmetic, the    *)
(* Instruction decoders and the step interpreter of CairoVM.               *)
(*                                                                         *)
(* Representation of the machine integers.                                 *)
(*  - A usize is written as its two's-complement signed reading: a small   *)
(*    non-negative n is n, and 2^64 - k is -k (so usize::MAX is -1).  The  *)
(*    offsets of the model stay far from 2^63, so wrapping addition is     *)
(*    integer addition of the signed readings, and the unsigned order is   *)
(*    ULt below.                                                           *)
(*  - A u64 instruction word is the tuple of its four 16-bit limbs, least  *)
(*    significant first.                                                   *)
(*  - A field element (Felt) is the residue modulo the Starknet prime p of *)
(*    a rational number whose numerator is a signed magnitude in 16-bit    *)
(*    limbs and whose denominator is a small positive integer, in lowest   *)
(*    terms.  For |numerator|, denominator < 2^120 two such fractions are  *)
(*    equal exactly when their residues are, so equality of the records is *)
(*    equality in the field.                                               *)
(***************************************************************************)
EXTENDS Integers, Sequences, FiniteSets, TLC

VARIABLES
    seg,        \* the Segment under test (segment.rs, struct Segment)
    call,       \* the last Segment call: its operation, arguments and result
    prev,       \* the call before the last one, when both are assert_eq of one offset
    asserted,   \* history: the value each offset was first asserted to
    cpu,        \* CairoVM.cpu: the registers pc, ap and fp
    memory,     \* CairoVM.memory: the sequence of its segments
    builtins,   \* CairoVM.builtins: the BuiltinManager
    stepped     \* the last call of CairoVM::step: its result and StepContext

segVars == <<seg, call, prev, asserted>>

vmVars == <<cpu, memory, builtins, stepped>>

vars == <<seg, call, prev, asserted, cpu, memory, builtins, stepped>>

---------------------------------------------------------------------------
(* Bounds of the model.                                                    *)

\* offsets 0..MaxLowIndex are asserted below the first capacity
MaxLowIndex == 1
\* offsets FirstCapacity..FirstCapacity+MaxHighOffset force a second growth
MaxHighOffset == 0

\* the number of cells a use of memory the segment does not own corrupts
MaxCorrupted == 1
\* the highest first segment of a builtin manager, and the most builtins it holds
MaxMinSegment == 3
MaxBuiltins == 3

---------------------------------------------------------------------------
(* Option and Result.                                                      *)

None == [some |-> FALSE]
Some(x) == [some |-> TRUE, v |-> x]

Ok(x) == [ok |-> TRUE, v |-> x]
Err(e) == [ok |-> FALSE, err |-> e]
Unit == "()"

\* a `let`: Body at the value of the expression e, which is evaluated once
Bind(e, Body(_)) == CHOOSE r \in {Body(x) : x \in {e}} : TRUE

---------------------------------------------------------------------------
(* usize.                                                                  *)

\* usize::MAX, as its signed reading
UsizeMax == 0 - 1

\* a < b as unsigned integers
ULt(a, b) ==
    IF (a >= 0) = (b >= 0) THEN a < b ELSE a >= 0

UGe(a, b) == ~ULt(a, b)

UMax(a, b) == IF ULt(a, b) THEN b ELSE a

\* usize::checked_add(1)
CheckedAdd1(a) == IF a = UsizeMax THEN None ELSE Some(a + 1)

---------------------------------------------------------------------------
(* Felt (starknet_types_core::felt::Felt): signed limb magnitudes over a   *)
(* small positive denominator, in lowest terms.                            *)

LimbBase == 65536

RECURSIVE Limbs(_)
\* the 16-bit limbs of a natural number, least significant first
Limbs(n) == IF n = 0 THEN <<>> ELSE <<n % LimbBase>> \o Limbs(n \div LimbBase)

Abs(n) == IF n < 0 THEN 0 - n ELSE n

RECURSIVE Trim(_)
\* a magnitude without its most significant zero limbs
Trim(m) ==
    IF m = <<>> THEN <<>>
    ELSE IF m[Len(m)] = 0 THEN Trim(SubSeq(m, 1, Len(m) - 1))
    ELSE m

Limb(m, i) == IF i <= Len(m) THEN m[i] ELSE 0

RECURSIVE MagAddFrom(_, _, _, _)
MagAddFrom(a, b, i, carry) ==
    IF i > Len(a) /\ i > Len(b)
    THEN (IF carry = 0 THEN <<>> ELSE <<carry>>)
    ELSE LET t == Limb(a, i) + Limb(b, i) + carry IN
         <<t % LimbBase>> \o MagAddFrom(a, b, i + 1, t \div LimbBase)

\* a + b of two magnitudes
MagAdd(a, b) == MagAddFrom(a, b, 1, 0)

RECURSIVE MagSubFrom(_, _, _, _)
MagSubFrom(a, b, i, borrow) ==
    IF i > Len(a) THEN <<>>
    ELSE LET t == Limb(a, i) - Limb(b, i) - borrow IN
         <<t % LimbBase>> \o MagSubFrom(a, b, i + 1, IF t < 0 THEN 1 ELSE 0)

\* a - b of two magnitudes, a >= b
MagSub(a, b) == Trim(MagSubFrom(a, b, 1, 0))

RECURSIVE MagLtFrom(_, _, _)
MagLtFrom(a, b, i) ==
    IF i = 0 THEN FALSE
    ELSE IF a[i] # b[i] THEN a[i] < b[i]
    ELSE MagLtFrom(a, b, i - 1)

\* a < b of two trimmed magnitudes
MagLt(a, b) ==
    IF Len(a) # Len(b) THEN Len(a) < Len(b) ELSE MagLtFrom(a, b, Len(a))

RECURSIVE MagMulSmallFrom(_, _, _, _)
MagMulSmallFrom(a, k, i, carry) ==
    IF i > Len(a) THEN Limbs(carry)
    ELSE LET t == a[i] * k + carry IN
         <<t % LimbBase>> \o MagMulSmallFrom(a, k, i + 1, t \div LimbBase)

\* a * k of a magnitude and an integer 0 <= k < 2^15
MagMulSmall(a, k) == Trim(MagMulSmallFrom(a, k, 1, 0))

RECURSIVE MagDivSmallFrom(_, _, _, _)
\* short division from the most significant limb: <<quotient limbs, remainder>>
MagDivSmallFrom(a, k, i, rem) ==
    IF i = 0 THEN [q |-> <<>>, r |-> rem]
    ELSE LET t == rem * LimbBase + a[i]
             rest == MagDivSmallFrom(a, k, i - 1, t % k)
         IN [q |-> rest.q \o <<t \div k>>, r |-> rest.r]

\* a \div k and a % k of a magnitude and an integer 0 < k < 2^15
MagDivSmall(a, k) == Trim(MagDivSmallFrom(a, k, Len(a), 0).q)
MagModSmall(a, k) == MagDivSmallFrom(a, k, Len(a), 0).r

\* a * k of a magnitude and a limb 0 <= k < 2^16, by the two bytes of k
MagMulLimb(a, k) ==
    MagAdd(MagMulSmall(a, k % 256), MagMulSmall(MagMulSmall(a, k \div 256), 256))

RECURSIVE MagMulFrom(_, _, _)
MagMulFrom(a, b, i) ==
    IF i > Len(b) THEN <<>>
    ELSE MagAdd(MagMulLimb(a, b[i]), <<0>> \o MagMulFrom(a, b, i + 1))

\* a * b of two magnitudes
MagMul(a, b) == Trim(MagMulFrom(a, b, 1))

RECURSIVE Gcd(_, _)
Gcd(a, b) == IF b = 0 THEN a ELSE Gcd(b, a % b)

\* the integer a magnitude of at most four limbs stands for (below 2^31 in the model)
MagInt(m) ==
    Limb(m, 1) + LimbBase * (Limb(m, 2) + LimbBase * (Limb(m, 3) + LimbBase * Limb(m, 4)))

\* the fraction num / den in lowest terms; num is [neg, mag], den > 0
FeltNorm(neg, mag, den) ==
    IF mag = <<>> THEN [neg |-> FALSE, mag |-> <<>>, den |-> 1]
    ELSE LET g == Gcd(den, MagModSmall(mag, den)) IN
         [neg |-> neg, mag |-> MagDivSmall(mag, g), den |-> den \div g]

\* Felt::from of a machine integer (a negative n is p - |n|)
FeltFrom(n) == [neg |-> n < 0, mag |-> Limbs(Abs(n)), den |-> 1]

FeltZero == FeltFrom(0)

\* the field element of an instruction word
FeltFromWord(w) == [neg |-> FALSE, mag |-> Trim(w), den |-> 1]

FeltNeg(a) == IF a.mag = <<>> THEN a ELSE [a EXCEPT !.neg = ~a.neg]

\* a + b in the field
FeltAdd(a, b) ==
    LET x == MagMulSmall(a.mag, b.den)
        y == MagMulSmall(b.mag, a.den)
        d == a.den * b.den
    IN  IF a.neg = b.neg THEN FeltNorm(a.neg, MagAdd(x, y), d)
        ELSE IF MagLt(x, y) THEN FeltNorm(b.neg, MagSub(y, x), d)
        ELSE FeltNorm(a.neg, MagSub(x, y), d)

\* a - b in the field
FeltSub(a, b) == FeltAdd(a, FeltNeg(b))

\* a * b in the field
FeltMul(a, b) == FeltNorm(a.neg # b.neg, MagMul(a.mag, b.mag), a.den * b.den)

\* Felt::is_zero
FeltIsZero(a) == a.mag = <<>>

\* Felt::field_div by a non-zero b whose numerator is below 2^15
FeltDiv(a, b) ==
    FeltNorm(a.neg # b.neg, MagMulSmall(a.mag, b.den), a.den * MagInt(b.mag))

\* a variant of the conversion that keeps the low 64 bits of every integer
FeltToU64_Truncating(a) ==
    IF a.den = 1 /\ ~a.neg
    THEN Some([i \in 1..4 |-> Limb(a.mag, i)])
    ELSE None

\* Felt::to_u64: the word of an element below 2^64, None for every other element
\* (a fraction that is no integer, and p - k, are residues far above 2^64)
FeltToU64(a) ==
    IF a.den = 1 /\ ~a.neg /\ Len(a.mag) <= 4
    THEN Some([i \in 1..4 |-> Limb(a.mag, i)])
    ELSE None

\* a variant of the conversion that takes the magnitude of a negative element
FeltToUsize_Magnitude(a) ==
    IF a.den = 1 /\ Len(a.mag) <= 4
    THEN Some(MagInt(a.mag))
    ELSE None

\* Felt::to_usize (a 64-bit target), for the elements below 2^31 and those of no usize
FeltToUsize(a) ==
    IF a.den = 1 /\ ~a.neg /\ Len(a.mag) <= 4
    THEN Some(MagInt(a.mag))
    ELSE None

---------------------------------------------------------------------------
(* Pointer and Value (memory/pointer.rs, memory/value.rs).                 *)

\* struct Pointer { segment, offset }
Pointer(s, o) == [segment |-> s, offset |-> o]

\* enum Value { Scalar(Felt), Pointer(Pointer) }
Value_Scalar(f) == [kind |-> "Scalar", felt |-> f]
Value_Pointer(p) == [kind |-> "Pointer", pointer |-> p]

\* the values the Segment calls of the model are made with
SegValues == {Value_Scalar(FeltFrom(9)), Value_Scalar(FeltFrom(10)), Value_Pointer(Pointer(0, 5))}

\* the payloads a read of memory the segment does not own may produce
PayloadsOfKind(k) == {v \in SegValues : v.kind = k}

\* usize::wrapping_add and usize::wrapping_sub on the signed readings
WrappingAdd(a, b) == a + b
WrappingSub(a, b) == a - b

\* Pointer::subtract: the signed distance of two pointers of one segment
Pointer_subtract(self, other) ==
    IF self.segment # other.segment THEN Err("IncoherentProvenance")
    ELSE Ok(WrappingSub(self.offset, other.offset))

\* Pointer::wrapping_add
Pointer_wrapping_add(self, offset) ==
    Pointer(self.segment, WrappingAdd(self.offset, offset))

\* Pointer::wrapping_sub
Pointer_wrapping_sub(self, offset) ==
    Pointer(self.segment, WrappingSub(self.offset, offset))

\* a variant of subtract whose Pointer - Scalar arm adds the scalar
Value_subtract_Adds(self, other) ==
    IF self.kind = "Scalar" THEN
        IF other.kind = "Scalar"
        THEN Ok(Value_Scalar(FeltSub(self.felt, other.felt)))
        ELSE Err("InvalidPointerArithmetic")
    ELSE
        IF other.kind = "Scalar" THEN
            LET right == FeltToUsize(other.felt) IN
            IF right.some
            THEN Ok(Value_Pointer(Pointer_wrapping_add(self.pointer, right.v)))
            ELSE Err("PointerTooLarge")
        ELSE
            LET dist == Pointer_subtract(self.pointer, other.pointer) IN
            IF dist.ok THEN Ok(Value_Scalar(FeltFrom(dist.v))) ELSE dist

\* Value::subtract
Value_subtract(self, other) ==
    IF self.kind = "Scalar" THEN
        IF other.kind = "Scalar"
        THEN Ok(Value_Scalar(FeltSub(self.felt, other.felt)))
        ELSE Err("InvalidPointerArithmetic")
    ELSE
        IF other.kind = "Scalar" THEN
            LET right == FeltToUsize(other.felt) IN
            IF right.some
            THEN Ok(Value_Pointer(Pointer_wrapping_sub(self.pointer, right.v)))
            ELSE Err("PointerTooLarge")
        ELSE
            LET dist == Pointer_subtract(self.pointer, other.pointer) IN
            IF dist.ok THEN Ok(Value_Scalar(FeltFrom(dist.v))) ELSE dist

\* a variant of add that refuses a Scalar on the left of a Pointer
Value_add_PointerFirst(self, other) ==
    IF self.kind = "Scalar" THEN
        IF other.kind = "Scalar"
        THEN Ok(Value_Scalar(FeltAdd(self.felt, other.felt)))
        ELSE Err("InvalidPointerArithmetic")
    ELSE
        IF other.kind = "Scalar" THEN
            LET right == FeltToUsize(other.felt) IN
            IF right.some
            THEN Ok(Value_Pointer(Pointer_wrapping_add(self.pointer, right.v)))
            ELSE Err("PointerTooLarge")
        ELSE Err("InvalidPointerArithmetic")

\* Value::add
Value_add(self, other) ==
    IF self.kind = "Scalar" THEN
        IF other.kind = "Scalar"
        THEN Ok(Value_Scalar(FeltAdd(self.felt, other.felt)))
        ELSE
            LET left == FeltToUsize(self.felt) IN
            IF left.some
            THEN Ok(Value_Pointer(Pointer_wrapping_add(other.pointer, left.v)))
            ELSE Err("PointerTooLarge")
    ELSE
        IF other.kind = "Scalar" THEN
            LET right == FeltToUsize(other.felt) IN
            IF right.some
            THEN Ok(Value_Pointer(Pointer_wrapping_add(self.pointer, right.v)))
            ELSE Err("PointerTooLarge")
        ELSE Err("InvalidPointerArithmetic")

\* Value::divide
Value_divide(self, other) ==
    IF other.kind = "Scalar" THEN
        IF ~FeltIsZero(other.felt) THEN
            IF self.kind = "Scalar"
            THEN Ok(Value_Scalar(FeltDiv(self.felt, other.felt)))
            ELSE Err("InvalidPointerArithmetic")
        ELSE Err("DivideByZero")
    ELSE Err("InvalidPointerArithmetic")

\* Value::multiply
Value_multiply(self, other) ==
    IF self.kind = "Scalar" THEN
        IF other.kind = "Scalar"
        THEN Ok(Value_Scalar(FeltMul(self.felt, other.felt)))
        ELSE Err("InvalidPointerArithmetic")
    ELSE Err("InvalidPointerArithmetic")

\* impl PartialEq<Pointer> for Value
Value_eq_Pointer(self, other) ==
    IF self.kind = "Scalar" THEN FALSE ELSE self.pointer = other

---------------------------------------------------------------------------
(* Segment (memory/segment.rs).                                            *)

SizeOfMetadata == 1
SizeOfFelt == 32

\* the union RawValue before any write
Uninit == [kind |-> "_unknown"]

\* Metadata::from_value_ref
Metadata_from_value_ref(v) == v.kind

\* Segment::new.  metadata_bytes and cells_bytes are the sizes of the live
\* allocations behind the two pointers (0: no allocation, or a dangling one).
Segment_new ==
    [capacity |-> 0, length |-> 0,
     metadata |-> <<>>, cells |-> <<>>,
     metadata_bytes |-> 0, cells_bytes |-> 0]

\* entry i (from 0) of an array of elements of `size` bytes lies within an
\* allocation of `bytes` bytes
Owned(i, size, bytes) == (i + 1) * size <= bytes

\* a pointer of the segment dangles: the segment has a capacity and one of its
\* arrays has no live allocation
Dangling(s) == s.capacity > 0 /\ (s.metadata_bytes = 0 \/ s.cells_bytes = 0)

\* Segment::highest_known_cell
Segment_highest_known_cell(s) == s.length

\* Segment::get.  metadata and cells are 1-based sequences: entry i is index+1.
Segment_get(s, index) ==
    IF UGe(index, s.length) THEN None
    ELSE IF s.metadata[index + 1] = "Unknown" THEN None
    ELSE Some(s.cells[index + 1])

\* the sets of at most MaxCorrupted of the entries J
Corrupted(J) == {K \in SUBSET J : Cardinality(K) <= MaxCorrupted}

\* the states of the cells array after memory it does not own was reused: tags
\* as they are, and of the known cells outside the `bytes` kept, at most
\* MaxCorrupted hold another payload of their tag
HavocCells(s, bytes) ==
    LET J == {j \in 1..s.length :
                s.metadata[j] # "Unknown" /\ ~Owned(j - 1, SizeOfFelt, bytes)}
    IN  {[s EXCEPT !.cells = [j \in 1..s.length |->
                                IF j \in DOMAIN c THEN c[j] ELSE s.cells[j]]] :
            c \in UNION {{c \in [K -> SegValues] :
                            \A j \in K : c[j] \in PayloadsOfKind(s.metadata[j])} :
                         K \in Corrupted(J)}}

\* what an entry reads as after the metadata array was freed: any tag, and
\* under a tag that is not the one the cell was written with, any payload of it
HavocEntry(s, j) ==
    {[t |-> "Unknown", c |-> s.cells[j]]}
        \cup {[t |-> v.kind, c |-> IF v.kind = s.cells[j].kind THEN s.cells[j] ELSE v] :
                v \in SegValues}

\* the states after the metadata array was freed: at most MaxCorrupted entries
\* below the length read as another entry
HavocMetadata(s) ==
    {[s EXCEPT !.metadata = [j \in 1..s.length |->
                                IF j \in DOMAIN m THEN m[j].t ELSE s.metadata[j]],
               !.cells = [j \in 1..s.length |->
                                IF j \in DOMAIN m THEN m[j].c ELSE s.cells[j]]] :
        m \in UNION {{m \in [K -> UNION {HavocEntry(s, j) : j \in K}] :
                        \A j \in K : m[j] \in HavocEntry(s, j)} :
                     K \in Corrupted(1..s.length)}}

\* Segment::grow: every (result, segment) it can end with.  The allocator may
\* refuse either request (md_ok, cells_ok).
Segment_grow(s, new_capacity) ==
    IF s.capacity = 0 THEN
        {[result |-> Ok(Unit),
          seg |-> [s EXCEPT !.capacity = new_capacity,
                            !.metadata_bytes = new_capacity * SizeOfMetadata,
                            !.cells_bytes = new_capacity * SizeOfFelt]],
         \* one of the two alloc calls returned null: the other is freed
         [result |-> Err("OutOfMemory"), seg |-> s]}
    ELSE
        \* both realloc calls succeed; each is asked for new_capacity BYTES
        {[result |-> Ok(Unit),
          seg |-> [t EXCEPT !.capacity = new_capacity,
                            !.metadata_bytes = new_capacity,
                            !.cells_bytes = new_capacity]] :
            t \in HavocCells(s, IF new_capacity < s.cells_bytes
                                THEN new_capacity ELSE s.cells_bytes)}
        \cup
        \* metadata moved, cells refused: the moved metadata is freed
        {[result |-> Err("OutOfMemory"), seg |-> [t EXCEPT !.metadata_bytes = 0]] :
            t \in HavocMetadata(s)}
        \cup
        \* metadata refused, cells moved: the moved cells are freed
        {[result |-> Err("OutOfMemory"), seg |-> [t EXCEPT !.cells_bytes = 0]] :
            t \in HavocCells(s, 0)}
        \cup
        \* both refused
        {[result |-> Err("OutOfMemory"), seg |-> s]}

\* a variant of the amortized capacity without the four cells of slack
Amortized_NoSlack(capacity) == (capacity * 3) \div 2

\* capacity.saturating_add(4).saturating_mul(3) / 2 (no saturation at these sizes)
Amortized(capacity) == ((capacity + 4) * 3) \div 2

\* a variant of the length extension that sets the length to index + 1
\* also when the index is below the length
ExtendLength_Always(s, index) ==
    [s EXCEPT !.length = index + 1,
        !.metadata = [j \in 1..(index + 1) |-> IF j <= s.length THEN s.metadata[j] ELSE "Unknown"],
        !.cells = [j \in 1..(index + 1) |-> IF j <= s.length THEN s.cells[j] ELSE Uninit]]

\* the while loop of assert_eq: Metadata::Unknown up to index, length = index + 1
ExtendLength(s, index) ==
    IF ULt(index, s.length) THEN s
    ELSE [s EXCEPT
            !.length = index + 1,
            !.metadata = [j \in 1..(index + 1) |->
                            IF j <= s.length THEN s.metadata[j] ELSE "Unknown"],
            !.cells = [j \in 1..(index + 1) |->
                            IF j <= s.length THEN s.cells[j] ELSE Uninit]]

\* a variant of the comparison that looks at the discriminant of a known
\* cell and not at its payload
Segment_assert_eq_in_capacity_TagOnly(s, index, value) ==
    LET t == ExtendLength(s, index) IN
    IF t.metadata[index + 1] = "Unknown"
    THEN [result |-> Ok(Unit),
          seg |-> [t EXCEPT !.metadata[index + 1] = Metadata_from_value_ref(value),
                            !.cells[index + 1] = value]]
    ELSE IF t.metadata[index + 1] # Metadata_from_value_ref(value)
    THEN [result |-> Err("Contradiction"), seg |-> t]
    ELSE [result |-> Ok(Unit), seg |-> t]

\* a variant of the comparison that rejects every assertion of a known cell
Segment_assert_eq_in_capacity_Strict(s, index, value) ==
    LET t == ExtendLength(s, index) IN
    IF t.metadata[index + 1] = "Unknown"
    THEN [result |-> Ok(Unit),
          seg |-> [t EXCEPT !.metadata[index + 1] = Metadata_from_value_ref(value),
                            !.cells[index + 1] = value]]
    ELSE [result |-> Err("Contradiction"), seg |-> t]

\* a variant of the comparison that stores the new value before it reports
\* the contradiction
Segment_assert_eq_in_capacity_Overwrite(s, index, value) ==
    LET t == ExtendLength(s, index) IN
    IF t.metadata[index + 1] = "Unknown"
    THEN [result |-> Ok(Unit),
          seg |-> [t EXCEPT !.metadata[index + 1] = Metadata_from_value_ref(value),
                            !.cells[index + 1] = value]]
    ELSE IF t.cells[index + 1] # value
    THEN [result |-> Err("Contradiction"),
          seg |-> [t EXCEPT !.metadata[index + 1] = Metadata_from_value_ref(value),
                            !.cells[index + 1] = value]]
    ELSE [result |-> Ok(Unit), seg |-> t]

\* assert_eq after the capacity check: lines 172-207
Segment_assert_eq_in_capacity(s, index, value) ==
    LET t == ExtendLength(s, index) IN
    IF t.metadata[index + 1] = "Unknown"
    THEN [result |-> Ok(Unit),
          seg |-> [t EXCEPT !.metadata[index + 1] = Metadata_from_value_ref(value),
                            !.cells[index + 1] = value]]
    ELSE IF t.cells[index + 1] # value
    THEN [result |-> Err("Contradiction"), seg |-> t]
    ELSE [result |-> Ok(Unit), seg |-> t]

\* Segment::assert_eq: every (result, segment) it can end with
Segment_assert_eq(s, index, value) ==
    IF UGe(index, s.capacity) THEN
        LET min_capacity == CheckedAdd1(index) IN
        IF ~min_capacity.some THEN {[result |-> Err("OutOfMemory"), seg |-> s]}
        ELSE
            LET new_capacity == UMax(Amortized(s.capacity), min_capacity.v) IN
            {IF g.result.ok THEN Segment_assert_eq_in_capacity(g.seg, index, value) ELSE g :
                g \in Segment_grow(s, new_capacity)}
    ELSE {Segment_assert_eq_in_capacity(s, index, value)}

---------------------------------------------------------------------------
(* Instruction (instr.rs): a u64 word, as its four 16-bit limbs.           *)

RECURSIVE BitAnd(_, _)
\* a & b of two naturals
BitAnd(a, b) ==
    IF a = 0 \/ b = 0 THEN 0
    ELSE (a % 2) * (b % 2) + 2 * BitAnd(a \div 2, b \div 2)

\* self.0 & mask
WordAnd(w, mask) == [i \in 1..4 |-> BitAnd(w[i], mask[i])]

\* the word 0xhhhh_0000_0000_0000 of a top limb
TopLimb(h) == <<0, 0, 0, h>>

WordZero == TopLimb(0)

\* a variant of the cast that keeps the unsigned reading of the limb
AsI16_Unsigned(limb) == limb

\* `as u16 as i16`: the two's-complement reading of a limb
AsI16(limb) == IF limb >= 32768 THEN limb - LimbBase ELSE limb

\* Instruction::dst_offset
Instruction_dst_offset(self) == AsI16(self[1])

\* Instruction::op0_offset
Instruction_op0_offset(self) == AsI16(self[2])

\* a variant of op1_offset that reads the field of op0_offset
Instruction_op1_offset_Bits16(self) == AsI16(self[2])

\* Instruction::op1_offset
Instruction_op1_offset(self) == AsI16(self[3])

\* Instruction::dst_register
Instruction_dst_register(self) ==
    IF WordAnd(self, TopLimb(1)) # WordZero THEN "FP" ELSE "AP"

\* Instruction::op0_register
Instruction_op0_register(self) ==
    IF WordAnd(self, TopLimb(2)) # WordZero THEN "FP" ELSE "AP"

\* Instruction::op1_source
Instruction_op1_source(self) ==
    LET bits == WordAnd(self, TopLimb(28)) IN
    IF bits = TopLimb(0) THEN Ok("Op0")
    ELSE IF bits = TopLimb(4) THEN Ok("PC")
    ELSE IF bits = TopLimb(8) THEN Ok("FP")
    ELSE IF bits = TopLimb(16) THEN Ok("AP")
    ELSE Err("UndefinedOp1Source")

\* Instruction::result_logic
Instruction_result_logic(self) ==
    LET bits == WordAnd(self, TopLimb(96)) IN
    IF bits = TopLimb(0) THEN Ok("Op1")
    ELSE IF bits = TopLimb(32) THEN Ok("Add")
    ELSE IF bits = TopLimb(64) THEN Ok("Mul")
    ELSE Err("UndefinedResultLogic")

\* Instruction::pc_update
Instruction_pc_update(self) ==
    LET bits == WordAnd(self, TopLimb(896)) IN
    IF bits = TopLimb(0) THEN Ok("Regular")
    ELSE IF bits = TopLimb(128) THEN Ok("AbsoluteJump")
    ELSE IF bits = TopLimb(256) THEN Ok("RelativeJump")
    ELSE IF bits = TopLimb(512) THEN Ok("ConditionalJump")
    ELSE Err("UndefinedPcUpdate")

\* a variant of ap_update whose mask reaches bit 60
Instruction_ap_update_WideMask(self) ==
    LET bits == WordAnd(self, TopLimb(3072 + 4096)) IN
    IF bits = TopLimb(0) THEN Ok("None")
    ELSE IF bits = TopLimb(1024) THEN Ok("AddResult")
    ELSE IF bits = TopLimb(2048) THEN Ok("Increment")
    ELSE Err("UndefinedApUpdate")

\* Instruction::ap_update
Instruction_ap_update(self) ==
    LET bits == WordAnd(self, TopLimb(3072)) IN
    IF bits = TopLimb(0) THEN Ok("None")
    ELSE IF bits = TopLimb(1024) THEN Ok("AddResult")
    ELSE IF bits = TopLimb(2048) THEN Ok("Increment")
    ELSE Err("UndefinedApUpdate")

\* a variant of op_code that leaves bit 63 out of its mask
Instruction_op_code_LowBits(self) ==
    LET bits == WordAnd(self, TopLimb(4096 + 8192 + 16384)) IN
    IF bits = TopLimb(0) THEN Ok("None")
    ELSE IF bits = TopLimb(4096) THEN Ok("Call")
    ELSE IF bits = TopLimb(8192) THEN Ok("Ret")
    ELSE IF bits = TopLimb(16384) THEN Ok("AssertEq")
    ELSE Err("UndefinedOpCode")

\* Instruction::op_code
Instruction_op_code(self) ==
    LET bits == WordAnd(self, TopLimb(61440)) IN
    IF bits = TopLimb(0) THEN Ok("None")
    ELSE IF bits = TopLimb(4096) THEN Ok("Call")
    ELSE IF bits = TopLimb(8192) THEN Ok("Ret")
    ELSE IF bits = TopLimb(16384) THEN Ok("AssertEq")
    ELSE Err("UndefinedOpCode")

\* a variant of the reserved-bit test that looks at bit 62
Instruction_is_last_bit_set_Bit62(self) == WordAnd(self, TopLimb(16384)) # WordZero

\* Instruction::is_last_bit_set
Instruction_is_last_bit_set(self) == WordAnd(self, TopLimb(32768)) # WordZero

---------------------------------------------------------------------------
(* CairoVM (lib.rs): BuiltinManager, StepContext and the step interpreter. *)
(* A vm is [cpu, memory, builtins]: cpu is [pc, ap, fp], memory is the     *)
(* sequence of its segments (segment s is memory[s + 1]), and builtins is  *)
(* [min_segment, max_segment, builtins].  A Builtin is an implementation   *)
(* of the trait: the table of the cells it deduces, by offset.             *)

\* Memory::segment_unchecked, for a segment of the memory
Memory_segment_unchecked(self, segment) == self[segment + 1]

\* Builtin::deduce: the value written to `result`, or CannotDeduce
Builtin_deduce(runner, offset, segment) ==
    IF offset \in DOMAIN runner THEN Ok(runner[offset]) ELSE Err("CannotDeduce")

\* impl From<CannotDeduce> for Error
Error_from_CannotDeduce(err) == "Builtin"

\* a variant of get_runner that counts the builtins from the last one
BuiltinManager_get_runner_FromEnd(self, segment) ==
    IF ULt(segment, self.min_segment) \/ UGe(segment, self.max_segment) THEN None
    ELSE LET index == (self.max_segment - 1) - segment IN
         Some(self.builtins[index + 1])

\* BuiltinManager::get_runner
BuiltinManager_get_runner(self, segment) ==
    IF ULt(segment, self.min_segment) \/ UGe(segment, self.max_segment) THEN None
    ELSE LET index == segment - self.min_segment IN
         Some(self.builtins[index + 1])

\* bitflags: contains, union, insert
Flags_contains(self, other) == other \subseteq self
Flags_union(self, other) == self \cup other
Flags_insert(self, other) == self \cup other

DST_DEDUCED == {"DST_DEDUCED"}
DST_ASSERTED == {"DST_ASSERTED"}
OP0_DEDUCED == {"OP0_DEDUCED"}
OP0_ASSERTED == {"OP0_ASSERTED"}
OP1_DEDUCED == {"OP1_DEDUCED"}
OP1_ASSERTED == {"OP1_ASSERTED"}
SIZE_TWO == {"SIZE_TWO"}

\* StepContextFlags::has_dst
StepContextFlags_has_dst(self) ==
    Flags_contains(self, Flags_union(DST_ASSERTED, DST_DEDUCED))

\* StepContextFlags::has_op0
StepContextFlags_has_op0(self) ==
    Flags_contains(self, Flags_union(OP0_ASSERTED, OP0_DEDUCED))

\* StepContextFlags::has_op1
StepContextFlags_has_op1(self) ==
    Flags_contains(self, Flags_union(OP1_ASSERTED, OP1_DEDUCED))

\* StepContextFlags::instruction_size
StepContextFlags_instruction_size(self) ==
    IF Flags_contains(self, SIZE_TWO) THEN 2 ELSE 1

\* StepContext::initial
StepContext_initial(instruction) ==
    [instruction |-> instruction,
     dst_addr |-> Pointer(0, 0), dst |-> Value_Scalar(FeltZero),
     op0_addr |-> Pointer(0, 0), op0 |-> Value_Scalar(FeltZero),
     op1_addr |-> Pointer(0, 0), op1 |-> Value_Scalar(FeltZero),
     flags |-> {},
     next_fp |-> Pointer(0, 0), next_ap |-> Pointer(0, 0), next_pc |-> Pointer(0, 0)]

\* fetch_instruction
fetch_instruction(vm) ==
    LET segment == Memory_segment_unchecked(vm.memory, vm.cpu.pc.segment)
        cell == Segment_get(segment, vm.cpu.pc.offset)
    IN  IF ~cell.some THEN Err("ProgramCounterLost")
        ELSE IF cell.v.kind # "Scalar" THEN Err("ProgramCounterLost")
        ELSE LET instr == FeltToU64(cell.v.felt) IN
             IF ~instr.some THEN Err("UndefinedInstruction") ELSE Ok(instr.v)

\* compute_dst
compute_dst(ctx, vm) ==
    LET base == IF Instruction_dst_register(ctx.instruction) = "AP"
                THEN ctx.op0_addr ELSE ctx.op1_addr
        dst_addr == Pointer(base.segment,
                        WrappingAdd(base.offset, Instruction_dst_offset(ctx.instruction)))
        segment == Memory_segment_unchecked(vm.memory, dst_addr.segment)
        val == Segment_get(segment, dst_addr.offset)
    IN  IF val.some
        THEN [ctx EXCEPT !.dst_addr = dst_addr, !.dst = val.v,
                         !.flags = Flags_insert(@, DST_ASSERTED)]
        ELSE [ctx EXCEPT !.dst_addr = dst_addr]

\* compute_op0
compute_op0(ctx, vm) ==
    LET base == IF Instruction_op0_register(ctx.instruction) = "AP"
                THEN vm.cpu.ap ELSE vm.cpu.fp
        op0_addr == Pointer(base.segment,
                        WrappingAdd(base.offset, Instruction_op0_offset(ctx.instruction)))
        segment == Memory_segment_unchecked(vm.memory, op0_addr.segment)
        val == Segment_get(segment, op0_addr.offset)
    IN  IF val.some
        THEN [ctx EXCEPT !.op0_addr = op0_addr, !.op0 = val.v,
                         !.flags = Flags_insert(@, OP0_ASSERTED)]
        ELSE [ctx EXCEPT !.op0_addr = op0_addr]

\* a variant of compute_op1 that counts two cells for every op1_src
compute_op1_AlwaysTwo(ctx, vm) ==
    LET source == Instruction_op1_source(ctx.instruction) IN
    IF ~source.ok THEN [result |-> source, ctx |-> ctx]
    ELSE
    LET base == CASE source.v = "Op0" -> ctx.op0_addr
                  [] source.v = "PC" -> vm.cpu.pc
                  [] source.v = "FP" -> vm.cpu.fp
                  [] source.v = "AP" -> vm.cpu.ap
        flags == Flags_insert(ctx.flags, SIZE_TWO)
        op1_addr == Pointer(base.segment,
                        WrappingAdd(base.offset, Instruction_op1_offset(ctx.instruction)))
        segment == Memory_segment_unchecked(vm.memory, op1_addr.segment)
        val == Segment_get(segment, op1_addr.offset)
    IN  [result |-> Ok(Unit),
         ctx |-> IF val.some
                 THEN [ctx EXCEPT !.op1_addr = op1_addr, !.op1 = val.v,
                                  !.flags = Flags_insert(flags, OP1_ASSERTED)]
                 ELSE [ctx EXCEPT !.op1_addr = op1_addr, !.flags = flags]]

\* compute_op1: [result, ctx]
compute_op1(ctx, vm) ==
    LET source == Instruction_op1_source(ctx.instruction) IN
    IF ~source.ok THEN [result |-> source, ctx |-> ctx]
    ELSE
    LET base == CASE source.v = "Op0" -> ctx.op0_addr
                  [] source.v = "PC" -> vm.cpu.pc
                  [] source.v = "FP" -> vm.cpu.fp
                  [] source.v = "AP" -> vm.cpu.ap
        flags == IF source.v = "PC" THEN Flags_insert(ctx.flags, SIZE_TWO) ELSE ctx.flags
        op1_addr == Pointer(base.segment,
                        WrappingAdd(base.offset, Instruction_op1_offset(ctx.instruction)))
        segment == Memory_segment_unchecked(vm.memory, op1_addr.segment)
        val == Segment_get(segment, op1_addr.offset)
    IN  [result |-> Ok(Unit),
         ctx |-> IF val.some
                 THEN [ctx EXCEPT !.op1_addr = op1_addr, !.op1 = val.v,
                                  !.flags = Flags_insert(flags, OP1_ASSERTED)]
                 ELSE [ctx EXCEPT !.op1_addr = op1_addr, !.flags = flags]]

\* deduce_with_builtin: Ok([deduced, value]) or Err
deduce_with_builtin(p, vm, result) ==
    LET runner == BuiltinManager_get_runner(vm.builtins, p.segment) IN
    IF ~runner.some THEN Ok([deduced |-> FALSE, value |-> result])
    ELSE LET segment == Memory_segment_unchecked(vm.memory, p.segment)
             d == Builtin_deduce(runner.v, p.offset, segment)
         IN  IF d.ok THEN Ok([deduced |-> TRUE, value |-> d.v])
             ELSE Err(Error_from_CannotDeduce(d.err))

\* run_builtins: [result, ctx]
run_builtins(ctx, vm) ==
    LET r0 == IF ~StepContextFlags_has_op0(ctx.flags)
              THEN deduce_with_builtin(ctx.op0_addr, vm, ctx.op0)
              ELSE Ok([deduced |-> FALSE, value |-> ctx.op0])
    IN  IF ~r0.ok THEN [result |-> r0, ctx |-> ctx]
        ELSE
        LET ctx0 == IF r0.v.deduced
                    THEN [ctx EXCEPT !.op0 = r0.v.value,
                                     !.flags = Flags_insert(@, OP0_DEDUCED)]
                    ELSE ctx
            r1 == IF ~StepContextFlags_has_op1(ctx0.flags)
                  THEN deduce_with_builtin(ctx0.op1_addr, vm, ctx0.op1)
                  ELSE Ok([deduced |-> FALSE, value |-> ctx0.op1])
        IN  IF ~r1.ok THEN [result |-> r1, ctx |-> ctx0]
            ELSE [result |-> Ok(Unit),
                  ctx |-> IF r1.v.deduced
                          THEN [ctx0 EXCEPT !.op1 = r1.v.value,
                                            !.flags = Flags_insert(@, OP1_DEDUCED)]
                          ELSE ctx0]

\* deduce_op1_from_op0: Ok([deduced, value]) or Err; op0 is an Option
deduce_op1_from_op0(res_logic, op0, dst, op1) ==
    CASE res_logic = "Op1" -> Ok([deduced |-> TRUE, value |-> dst])
      [] res_logic = "Add" ->
            IF ~op0.some THEN Ok([deduced |-> FALSE, value |-> op1])
            ELSE LET d == Value_subtract(dst, op0.v) IN
                 IF d.ok THEN Ok([deduced |-> TRUE, value |-> d.v]) ELSE d
      [] res_logic = "Mul" ->
            IF ~op0.some THEN Ok([deduced |-> FALSE, value |-> op1])
            ELSE LET d == Value_divide(dst, op0.v) IN
                 IF d.ok THEN Ok([deduced |-> TRUE, value |-> d.v]) ELSE d

\* deduce_op0_from_op1: Ok([deduced, value]) or Err
deduce_op0_from_op1(res_logic, op1, dst, op0) ==
    CASE res_logic = "Op1" -> Ok([deduced |-> FALSE, value |-> op0])
      [] res_logic = "Add" ->
            LET d == Value_subtract(dst, op1) IN
            IF d.ok THEN Ok([deduced |-> TRUE, value |-> d.v]) ELSE d
      [] res_logic = "Mul" ->
            LET d == Value_divide(dst, op1) IN
            IF d.ok THEN Ok([deduced |-> TRUE, value |-> d.v]) ELSE d

\* deduce_from_op_code, the Call arm: [result, ctx]
deduce_from_op_code_Call(ctx, vm) ==
    LET fp_plus_size ==
            Pointer_wrapping_add(vm.cpu.fp, StepContextFlags_instruction_size(ctx.flags))
    IN  IF StepContextFlags_has_op0(ctx.flags) /\ ~Value_eq_Pointer(ctx.op0, fp_plus_size)
        THEN [result |-> Err("Contradiction"), ctx |-> ctx]
        ELSE
        LET ctx0 == IF StepContextFlags_has_op0(ctx.flags) THEN ctx
                    ELSE [ctx EXCEPT !.op0 = Value_Pointer(fp_plus_size),
                                     !.flags = Flags_insert(@, OP0_DEDUCED)]
        IN  IF StepContextFlags_has_dst(ctx0.flags) /\ ~Value_eq_Pointer(ctx0.dst, vm.cpu.fp)
            THEN [result |-> Err("Contradiction"), ctx |-> ctx0]
            ELSE [result |-> Ok(Unit),
                  ctx |-> IF StepContextFlags_has_dst(ctx0.flags) THEN ctx0
                          ELSE [ctx0 EXCEPT !.dst = Value_Pointer(vm.cpu.fp),
                                            !.flags = Flags_insert(@, DST_DEDUCED)]]

\* a variant of the AssertEq arm that recomputes op0 from dst whatever is known
deduce_from_op_code_AssertEq_Overwrite(ctx, vm) ==
    [result |-> Ok(Unit),
     ctx |-> [ctx EXCEPT !.op0 = ctx.dst, !.flags = Flags_insert(@, OP0_DEDUCED)]]

\* deduce_from_op_code, the AssertEq arm: [result, ctx]
deduce_from_op_code_AssertEq(ctx, vm) ==
    IF ~StepContextFlags_has_dst(ctx.flags) THEN [result |-> Ok(Unit), ctx |-> ctx]
    ELSE
    LET res_logic == Instruction_result_logic(ctx.instruction) IN
    IF ~res_logic.ok THEN [result |-> res_logic, ctx |-> ctx]
    ELSE
    LET op0 == IF StepContextFlags_has_op0(ctx.flags) THEN Some(ctx.op0) ELSE None
        r1 == IF ~StepContextFlags_has_op1(ctx.flags)
              THEN deduce_op1_from_op0(res_logic.v, op0, ctx.dst, ctx.op1)
              ELSE Ok([deduced |-> FALSE, value |-> ctx.op1])
    IN  IF ~r1.ok THEN [result |-> r1, ctx |-> ctx]
        ELSE
        LET ctx1 == IF r1.v.deduced
                    THEN [ctx EXCEPT !.op1 = r1.v.value,
                                     !.flags = Flags_insert(@, OP1_DEDUCED)]
                    ELSE ctx
            r0 == IF StepContextFlags_has_op1(ctx1.flags) /\ ~StepContextFlags_has_op0(ctx1.flags)
                  THEN deduce_op0_from_op1(res_logic.v, ctx1.op1, ctx1.dst, ctx1.op0)
                  ELSE Ok([deduced |-> FALSE, value |-> ctx1.op0])
        IN  IF ~r0.ok THEN [result |-> r0, ctx |-> ctx1]
            ELSE [result |-> Ok(Unit),
                  ctx |-> IF r0.v.deduced
                          THEN [ctx1 EXCEPT !.op0 = r0.v.value,
                                            !.flags = Flags_insert(@, OP0_DEDUCED)]
                          ELSE ctx1]

\* deduce_from_op_code: [result, ctx]
deduce_from_op_code(ctx, vm) ==
    LET op_code == Instruction_op_code(ctx.instruction) IN
    IF ~op_code.ok THEN [result |-> op_code, ctx |-> ctx]
    ELSE IF op_code.v = "Call" THEN deduce_from_op_code_Call(ctx, vm)
    ELSE IF op_code.v = "AssertEq" THEN deduce_from_op_code_AssertEq(ctx, vm)
    ELSE [result |-> Ok(Unit), ctx |-> ctx]

\* the StepContext of a step that returned before it made one
NoContext == [instruction |-> "none"]

\* a variant of the step that advances pc by one before it fetches, and
\* fills no StepContext
CairoVM_step_AdvanceFirst(vm) ==
    Bind(fetch_instruction(vm), LAMBDA instruction :
    [result |-> IF instruction.ok THEN Ok(Unit) ELSE instruction,
     vm |-> [vm EXCEPT !.cpu.pc = Pointer_wrapping_add(@, 1)],
     ctx |-> NoContext])

\* a variant of the step that moves ap past the end of the memory
CairoVM_step_ApLeaves(vm) ==
    Bind(fetch_instruction(vm), LAMBDA instruction :
    [result |-> IF instruction.ok THEN Ok(Unit) ELSE instruction,
     vm |-> [vm EXCEPT !.cpu.ap = Pointer(Len(vm.memory), @.offset)],
     ctx |-> NoContext])

\* CairoVM::step: its result, the vm it leaves and the StepContext it dropped.
\* step assigns no field of self: it reads cpu, memory and builtins to fill
\* the StepContext, and returns.
CairoVM_step(vm) ==
    Bind(fetch_instruction(vm), LAMBDA instruction :
    IF ~instruction.ok THEN [result |-> instruction, vm |-> vm, ctx |-> NoContext]
    ELSE IF Instruction_is_last_bit_set(instruction.v)
    THEN [result |-> Err("UndefinedInstruction"), vm |-> vm, ctx |-> NoContext]
    ELSE
    Bind(StepContext_initial(instruction.v), LAMBDA ctx0 :
    Bind(compute_dst(ctx0, vm), LAMBDA ctx1 :
    Bind(compute_op0(ctx1, vm), LAMBDA ctx2 :
    Bind(compute_op1(ctx2, vm), LAMBDA r3 :
    IF ~r3.result.ok THEN [result |-> r3.result, vm |-> vm, ctx |-> r3.ctx]
    ELSE
    Bind(run_builtins(r3.ctx, vm), LAMBDA r4 :
    IF ~r4.result.ok THEN [result |-> r4.result, vm |-> vm, ctx |-> r4.ctx]
    ELSE
    Bind(deduce_from_op_code(r4.ctx, vm), LAMBDA r5 :
    [result |-> IF r5.result.ok THEN Ok(Unit) ELSE r5.result,
     vm |-> vm, ctx |-> r5.ctx])))))))

---------------------------------------------------------------------------
(* The Segment specification: any sequence of assert_eq and get calls on a *)
(* segment that starts empty.                                              *)

FirstCapacity == Amortized(0)

Indexes ==
    (0..MaxLowIndex)
    \cup (FirstCapacity..(FirstCapacity + MaxHighOffset))
    \cup {UsizeMax}

NoCall == [op |-> "none"]

\* no CairoVM is under test, and no step was made
NoVm == "none"
NoStep == [result |-> "none"]

SegInit ==
    /\ seg = Segment_new
    /\ call = NoCall
    /\ prev = NoCall
    /\ asserted = <<>>
    /\ cpu = NoVm /\ memory = NoVm /\ builtins = NoVm /\ stepped = NoStep

\* a call of assert_eq(index, value).  A segment one of whose pointers dangles is
\* not used again: every later read of it is undefined.
SegAssertEq ==
    /\ ~Dangling(seg)
    /\ UNCHANGED vmVars
    /\ \E index \in Indexes, value \in SegValues :
        \E o \in Segment_assert_eq(seg, index, value) :
            /\ seg' = o.seg
            /\ call' = [op |-> "assert_eq", index |-> index, value |-> value,
                        result |-> o.result]
            /\ prev' = IF call.op = "assert_eq" /\ call.result.ok /\ call.index = index
                       THEN call ELSE NoCall
            /\ asserted' =
                IF o.result.ok /\ index \notin DOMAIN asserted
                THEN [j \in DOMAIN asserted \cup {index} |->
                        IF j = index THEN value ELSE asserted[j]]
                ELSE asserted

\* a call of get(index)
SegGet ==
    /\ ~Dangling(seg)
    /\ \E index \in Indexes :
        /\ call' = [op |-> "get", index |-> index, result |-> Segment_get(seg, index)]
        /\ prev' = NoCall
        /\ UNCHANGED <<seg, asserted>>
        /\ UNCHANGED vmVars

SegNext == SegAssertEq \/ SegGet

SegSpec == SegInit /\ [][SegNext]_vars

---------------------------------------------------------------------------
(* The CairoVM specification: a step of a machine whose program segment 0  *)
(* holds an instruction word and the cell after it, and whose working      *)
(* segment 1 holds the cells ap and fp point into.                         *)

RECURSIVE SegmentOfFrom(_, _, _)
\* the segment assert_eq makes of a fresh one, asserting the known cells
\* of `cells` (a sequence of Options) from the highest offset down
SegmentOfFrom(s, cells, i) ==
    IF i = 0 THEN s
    ELSE IF ~cells[i].some THEN SegmentOfFrom(s, cells, i - 1)
    ELSE SegmentOfFrom(
            (CHOOSE o \in Segment_assert_eq(s, i - 1, cells[i].v) : o.result.ok).seg,
            cells, i - 1)

SegmentOf(cells) == SegmentOfFrom(Segment_new, cells, Len(cells))

\* the limbs 48..63 of the instruction words: every combination of
\* dst_register (bit 48), op0_register (bit 49), op1_source (bits 50..52),
\* result_logic (bits 53..54) and op_code (bits 60..63), the undefined
\* encodings included, under the pc_update Regular and the ap_update None
FlagLimbs ==
    {dr + 2 * o0 + 4 * o1 + 32 * rl + 4096 * oc :
        dr \in 0..1, o0 \in 0..1, o1 \in {0, 1, 2, 4, 3}, rl \in 0..3,
        oc \in {0, 1, 2, 4, 3}}

\* the offset limbs of the instruction words: 0, 1 and -1
DstOffsetLimbs == {0, 1, 65535}
Op0OffsetLimbs == {0, 1}
Op1OffsetLimbs == {1, 65535}

\* [ap] = imm; ap++ : AssertEq, Op1, op1 at pc + 1, dst at ap + 0, Regular, Increment
AssertImmediateWord == <<0, 0, 1, 4 + 2048 + 16384>>

\* call abs imm : Call, Op1, op1 at pc + 1, dst at ap + 0, op0 at ap + 1, AbsoluteJump
CallAbsoluteWord == <<0, 1, 1, 4 + 128 + 4096>>

\* ret : Ret, Op1, op1 at fp - 1, dst at fp - 2, AbsoluteJump
RetWord == <<65534, 65535, 65535, 1 + 2 + 8 + 128 + 8192>>

\* an instruction word with bit 63 set
LastBitWord == <<0, 0, 1, 32768>>

\* words with bit 63 set over other flag bits: none, the undefined op1_src
\* 0b011, the undefined opcode 0b011, and those of `[ap] = imm; ap++`
LastBitWords == {<<0, 0, 1, 32768 + f>> : f \in {0, 12, 12288, 4 + 2048 + 16384}}

\* jnz : ConditionalJump, Op1, opcode None, AddResult, dst at fp + 0,
\* op0 at ap + 0, op1 at pc + 1
CondJmpWord == <<0, 0, 1, 1 + 4 + 512 + 1024>>

\* the same word with res_logic Add, with opcode AssertEq, and with ap_update None
CondJmpAddWord == <<0, 0, 1, 1 + 4 + 32 + 512 + 1024>>
CondJmpAssertEqWord == <<0, 0, 1, 1 + 4 + 512 + 1024 + 16384>>
CondJmpNoApWord == <<0, 0, 1, 1 + 4 + 512>>

\* the flag limbs the offsets are varied under: those of the three words
\* above, and AssertEq with Add, dst at fp, op0 at ap and op1 at pc
OffsetFlagLimbs ==
    {AssertImmediateWord[4], CallAbsoluteWord[4], RetWord[4], 1 + 4 + 32 + 16384}

\* every flag limb with the offsets 0, 0, 1, and every offset under a few
\* flag limbs
InstructionWords ==
    {<<0, 0, 1, f>> : f \in FlagLimbs}
        \cup {<<d, a, b, f>> : d \in DstOffsetLimbs, a \in Op0OffsetLimbs,
                               b \in Op1OffsetLimbs, f \in OffsetFlagLimbs}
        \cup {AssertImmediateWord, CallAbsoluteWord, RetWord, LastBitWord}
        \cup LastBitWords
        \cup {CondJmpWord, CondJmpAddWord, CondJmpAssertEqWord, CondJmpNoApWord}

\* the cells pc may point to: an instruction word, an unknown cell, a
\* pointer, and the scalars p - 1 and 2^64 that are no u64
InstructionCells ==
    {Some(Value_Scalar(FeltFromWord(w))) : w \in InstructionWords}
        \cup {None, Some(Value_Pointer(Pointer(0, 1))),
              Some(Value_Scalar(FeltFrom(0 - 1))),
              Some(Value_Scalar(FeltFromWord(<<0, 0, 0, 0, 1>>)))}

\* the cell after the instruction
ImmediateCells ==
    {None, Some(Value_Scalar(FeltFrom(7))), Some(Value_Pointer(Pointer(0, 5)))}

\* the cells (1, 0) and (1, 1) of the working segment
WorkingCells0 ==
    {None, Some(Value_Scalar(FeltFrom(2))), Some(Value_Pointer(Pointer(1, 1)))}
WorkingCells1 == {None, Some(Value_Scalar(FeltFrom(5))), Some(Value_Scalar(FeltZero))}

\* the builtin managers: no builtin, or one builtin on the working segment
\* that deduces the cell at offset 1 and no other
BuiltinManagers ==
    {[min_segment |-> 1, max_segment |-> 1, builtins |-> <<>>],
     [min_segment |-> 1, max_segment |-> 2,
      builtins |-> <<[o \in {1} |-> Value_Scalar(FeltFrom(3))]>>]}

\* the registers of the machine: pc at the instruction, ap at the base of
\* the working segment, fp one cell above
InitialCpu == [pc |-> Pointer(0, 0), ap |-> Pointer(1, 0), fp |-> Pointer(1, 1)]

VmInit ==
    /\ seg = Segment_new /\ call = NoCall /\ prev = NoCall /\ asserted = <<>>
    /\ cpu = InitialCpu
    /\ \E instr \in InstructionCells, imm \in ImmediateCells,
          c0 \in WorkingCells0, c1 \in WorkingCells1 :
        memory = <<SegmentOf(<<instr, imm>>), SegmentOf(<<c0, c1>>)>>
    /\ builtins \in BuiltinManagers
    /\ stepped = NoStep

\* CairoVM::step on the machine
VmStep ==
    \E s \in {CairoVM_step([cpu |-> cpu, memory |-> memory, builtins |-> builtins])} :
    /\ cpu' = s.vm.cpu
    /\ memory' = s.vm.memory
    /\ builtins' = s.vm.builtins
    /\ stepped' = [result |-> s.result, ctx |-> s.ctx]
    /\ UNCHANGED segVars

VmNext == VmStep

VmSpec == VmInit /\ [][VmNext]_vars

---------------------------------------------------------------------------
(* The BuiltinManager specification: get_runner calls on a manager of up   *)
(* to MaxBuiltins builtins whose first segment is any of 0..MaxMinSegment. *)

\* a builtin that deduces the scalar k at offset k, and no other cell
RunnerBuiltin(k) == [o \in {k} |-> Value_Scalar(FeltFrom(k))]

\* the managers: max_segment - min_segment builtins, each one distinct
RunnerManagers ==
    {[min_segment |-> m, max_segment |-> m + n,
      builtins |-> [i \in 1..n |-> RunnerBuiltin(i)]] :
        m \in 0..MaxMinSegment, n \in 0..MaxBuiltins}

\* the segment indexes get_runner is called with
RunnerSegments == (0..(MaxMinSegment + MaxBuiltins)) \cup {UsizeMax}

RunnerInit ==
    /\ seg = Segment_new /\ call = NoCall /\ prev = NoCall /\ asserted = <<>>
    /\ cpu = NoVm /\ memory = NoVm /\ stepped = NoStep
    /\ builtins \in RunnerManagers

\* a call of get_runner(segment)
RunnerGet ==
    /\ \E segment \in RunnerSegments :
        call' = [op |-> "get_runner", segment |-> segment,
                 result |-> BuiltinManager_get_runner(builtins, segment)]
    /\ UNCHANGED <<seg, prev, asserted, cpu, memory, builtins, stepped>>

RunnerNext == RunnerGet

RunnerSpec == RunnerInit /\ [][RunnerNext]_vars

---------------------------------------------------------------------------
(* The Value specification: calls of the arithmetic of Value on scalars    *)
(* and pointers.                                                           *)

\* the field elements of the operands: 0, 1, 2, p - 1, 2^64 and 1/2; the
\* last three fit no usize
ValueScalars ==
    {FeltFrom(0), FeltFrom(1), FeltFrom(2), FeltFrom(0 - 1),
     FeltFromWord(<<0, 0, 0, 0, 1>>), FeltDiv(FeltFrom(1), FeltFrom(2))}

\* the pointers of the operands, one of them at the offset usize::MAX
ValuePointers ==
    {Pointer(0, 0), Pointer(0, 1), Pointer(0, 3), Pointer(1, 1), Pointer(0, UsizeMax)}

ValueOperands ==
    {Value_Scalar(f) : f \in ValueScalars} \cup {Value_Pointer(q) : q \in ValuePointers}

ValueInit ==
    /\ seg = Segment_new /\ call = NoCall /\ prev = NoCall /\ asserted = <<>>
    /\ cpu = NoVm /\ memory = NoVm /\ builtins = NoVm /\ stepped = NoStep

\* a call of left.add(right)
ValueAdd ==
    /\ \E left \in ValueOperands, right \in ValueOperands :
        call' = [op |-> "add", left |-> left, right |-> right,
                 result |-> Value_add(left, right)]
    /\ UNCHANGED <<seg, prev, asserted, cpu, memory, builtins, stepped>>

\* a call of left.subtract(right)
ValueSubtract ==
    /\ \E left \in ValueOperands, right \in ValueOperands :
        call' = [op |-> "subtract", left |-> left, right |-> right,
                 result |-> Value_subtract(left, right)]
    /\ UNCHANGED <<seg, prev, asserted, cpu, memory, builtins, stepped>>

\* the divisors: every pointer, and the scalars whose numerator is one limb
ValueDivisors ==
    {v \in ValueOperands : v.kind = "Pointer" \/ Len(v.felt.mag) <= 1}

\* a call of left.divide(right)
ValueDivide ==
    /\ \E left \in ValueOperands, right \in ValueDivisors :
        call' = [op |-> "divide", left |-> left, right |-> right,
                 result |-> Value_divide(left, right)]
    /\ UNCHANGED <<seg, prev, asserted, cpu, memory, builtins, stepped>>

\* a call of left.multiply(right)
ValueMultiply ==
    /\ \E left \in ValueOperands, right \in ValueOperands :
        call' = [op |-> "multiply", left |-> left, right |-> right,
                 result |-> Value_multiply(left, right)]
    /\ UNCHANGED <<seg, prev, asserted, cpu, memory, builtins, stepped>>

ValueNext == ValueAdd \/ ValueSubtract \/ ValueDivide \/ ValueMultiply

ValueSpec == ValueInit /\ [][ValueNext]_vars

---------------------------------------------------------------------------
(* The Instruction specification: a machine whose pc points at one word;   *)
(* the word is decoded field by field, or the machine makes a step.        *)

\* the 16-bit fields of the offsets: 0, 1, i16::MAX, i16::MIN and -1
InstrOffsetLimbs == {0, 1, 32767, 32768, 65535}

\* every limb 48..63 under the offsets -1, i16::MIN and 1, and every offset
\* under the flag limbs zero and of `[ap] = imm; ap++`
InstrWords ==
    {<<65535, 32768, 1, f>> : f \in 0..(LimbBase - 1)}
        \cup {<<d, a, b, f>> : d \in InstrOffsetLimbs, a \in InstrOffsetLimbs,
                               b \in InstrOffsetLimbs, f \in {0, AssertImmediateWord[4]}}

InstrInit ==
    /\ seg = Segment_new /\ prev = NoCall /\ asserted = <<>>
    /\ cpu = InitialCpu
    /\ builtins = [min_segment |-> 1, max_segment |-> 1, builtins |-> <<>>]
    /\ stepped = NoStep
    /\ \E w \in InstrWords :
        /\ call = [op |-> "word", word |-> w]
        /\ memory = <<SegmentOf(<<Some(Value_Scalar(FeltFromWord(w)))>>), Segment_new>>

\* every decoder of Instruction on the word
InstrDecode ==
    /\ call.op = "word"
    /\ call' = [op |-> "decode", word |-> call.word,
                dst_offset |-> Instruction_dst_offset(call.word),
                op0_offset |-> Instruction_op0_offset(call.word),
                op1_offset |-> Instruction_op1_offset(call.word),
                dst_register |-> Instruction_dst_register(call.word),
                op0_register |-> Instruction_op0_register(call.word),
                op1_source |-> Instruction_op1_source(call.word),
                result_logic |-> Instruction_result_logic(call.word),
                pc_update |-> Instruction_pc_update(call.word),
                ap_update |-> Instruction_ap_update(call.word),
                op_code |-> Instruction_op_code(call.word),
                is_last_bit_set |-> Instruction_is_last_bit_set(call.word)]
    /\ UNCHANGED <<seg, prev, asserted, cpu, memory, builtins, stepped>>

\* CairoVM::step on the machine
InstrStep ==
    /\ call.op = "word"
    /\ \E s \in {CairoVM_step([cpu |-> cpu, memory |-> memory, builtins |-> builtins])} :
        /\ cpu' = s.vm.cpu
        /\ memory' = s.vm.memory
        /\ builtins' = s.vm.builtins
        /\ stepped' = [result |-> s.result, ctx |-> s.ctx]
    /\ call' = [op |-> "step", word |-> call.word]
    /\ UNCHANGED <<seg, prev, asserted>>

InstrNext == InstrDecode \/ InstrStep

InstrSpec == InstrInit /\ [][InstrNext]_vars

---------------------------------------------------------------------------
(* Claims about the Segment, checked under SegSpec.                        *)

\* every offset a call of the model can observe
Offsets == (0..(FirstCapacity + MaxHighOffset + 1)) \cup {UsizeMax}

\* the last two calls were assert_eq at the same offset, the first one succeeding
TwoAssertsAtSameIndex ==
    /\ prev.op = "assert_eq" /\ call.op = "assert_eq"
    /\ prev.result.ok
    /\ call.index = prev.index

\* C1: assert_eq(i, v1) succeeding and then assert_eq(i, v2) with v2 # v1 (in payload
\* or only in tag) returns Contradiction, and get(i) still returns v1.
C1_SecondAssertContradicts ==
    (TwoAssertsAtSameIndex /\ call.value # prev.value)
        => /\ call.result = Err("Contradiction")
           /\ Segment_get(seg, call.index) = Some(prev.value)

C1_Witness ==
    /\ TwoAssertsAtSameIndex
    /\ call.value # prev.value
    /\ call.value.kind # prev.value.kind
    /\ call.result = Err("Contradiction")
    /\ call.index = FirstCapacity

\* C2: assert_eq(i, v) twice with the same v: the second call returns Ok and leaves
\* capacity, length and every cell as the first call left them.
C2_AssertEqIdempotent ==
    [][(/\ call.op = "assert_eq" /\ call.result.ok
        /\ call'.op = "assert_eq"
        /\ call'.index = call.index /\ call'.value = call.value)
            => /\ call'.result = Ok(Unit)
               /\ seg'.capacity = seg.capacity
               /\ seg'.length = seg.length
               /\ \A i \in Offsets : Segment_get(seg', i) = Segment_get(seg, i)]_vars

C2_Witness ==
    /\ TwoAssertsAtSameIndex
    /\ call.value = prev.value
    /\ call.result.ok
    /\ seg.length > 1

\* C3: once get(i) returns a value, every later get(i) returns that value: a known
\* cell never becomes Unknown and never changes tag or payload.
C3_WriteOnce ==
    [][\A i \in Offsets : Segment_get(seg, i).some => Segment_get(seg', i) = Segment_get(seg, i)]_vars

SetMax(S) == CHOOSE x \in S : \A y \in S : y <= x

C5_GetReturnsAsserted ==
    \A i \in Offsets :
        Segment_get(seg, i) = IF i \in DOMAIN asserted THEN Some(asserted[i]) ELSE None

\* C6: an assert_eq that returns OutOfMemory leaves capacity, length and the value
\* get returns at every offset as they were.
C6_OutOfMemoryLeavesSegment ==
    [][(call'.op = "assert_eq" /\ call'.result = Err("OutOfMemory"))
            => /\ seg'.capacity = seg.capacity
               /\ seg'.length = seg.length
               /\ \A i \in Offsets : Segment_get(seg', i) = Segment_get(seg, i)]_vars

---------------------------------------------------------------------------
(* Claims about CairoVM::step, checked under VmSpec.                       *)

\* the cell of the memory at a pointer
MemoryAt(mem, p) == Segment_get(Memory_segment_unchecked(mem, p.segment), p.offset)

\* the instruction word pc points to, when there is one
InstructionAt(c, mem) ==
    LET cell == MemoryAt(mem, c.pc) IN
    IF cell.some /\ cell.v.kind = "Scalar" THEN FeltToU64(cell.v.felt) ELSE None

\* the step that was made ran its deductions on a StepContext
SteppedWithContext == stepped # NoStep /\ stepped.ctx # NoContext

\* no builtin is registered
NoBuiltin == builtins.builtins = <<>>

\* C7: a step of `[ap] = imm; ap++` (AssertEq, Op1, op1 at pc + 1, Regular,
\* Increment) whose immediate is known and whose destination cell is unknown
\* succeeds and commits: afterwards the cell at the old ap holds the
\* immediate, ap has advanced by 1 and pc by the instruction size 2.
C7_AssertImmediateCommits ==
    [][(/\ InstructionAt(cpu, memory) = Some(AssertImmediateWord)
        /\ MemoryAt(memory, Pointer_wrapping_add(cpu.pc, 1)).some
        /\ ~MemoryAt(memory, cpu.ap).some
        /\ NoBuiltin)
            => /\ stepped'.result = Ok(Unit)
               /\ MemoryAt(memory', cpu.ap) = MemoryAt(memory, Pointer_wrapping_add(cpu.pc, 1))
               /\ cpu'.ap = Pointer_wrapping_add(cpu.ap, 1)
               /\ cpu'.pc = Pointer_wrapping_add(cpu.pc, 2)]_vars

\* C8: a step of `call abs imm` (Call, ap_update None) on unknown cells at ap
\* and ap + 1 succeeds, writes memory[ap] = old fp and memory[ap + 1] =
\* pc + 2, and sets fp and ap to the old ap + 2.
C8_CallWritesFrame ==
    [][(/\ InstructionAt(cpu, memory) = Some(CallAbsoluteWord)
        /\ MemoryAt(memory, Pointer_wrapping_add(cpu.pc, 1)).some
        /\ ~MemoryAt(memory, cpu.ap).some
        /\ ~MemoryAt(memory, Pointer_wrapping_add(cpu.ap, 1)).some
        /\ NoBuiltin)
            => /\ stepped'.result = Ok(Unit)
               /\ MemoryAt(memory', cpu.ap) = Some(Value_Pointer(cpu.fp))
               /\ MemoryAt(memory', Pointer_wrapping_add(cpu.ap, 1))
                    = Some(Value_Pointer(Pointer_wrapping_add(cpu.pc, 2)))
               /\ cpu'.ap = Pointer_wrapping_add(cpu.ap, 2)
               /\ cpu'.fp = Pointer_wrapping_add(cpu.ap, 2)]_vars

\* the step ran the deduction of a Call instruction
SteppedCall ==
    /\ SteppedWithContext
    /\ Instruction_op1_source(stepped.ctx.instruction).ok
    /\ Instruction_op_code(stepped.ctx.instruction) = Ok("Call")
    /\ stepped.result # Err("Builtin")

\* pc + instr_size of the instruction that was stepped
ReturnAddress ==
    Pointer_wrapping_add(cpu.pc, StepContextFlags_instruction_size(stepped.ctx.flags))

\* C9: in the deduction of a Call instruction, op0 is asserted to
\* pc + instr_size and dst to fp: a step that succeeds leaves op0 =
\* pc + instr_size and dst = fp in its context, and a step whose op0 (dst)
\* cell is known in memory and differs from that value fails with
\* Contradiction; the deduction gives op1 no value.
C9_CallAssertsOperands ==
    SteppedCall =>
        /\ (OP1_DEDUCED \subseteq stepped.ctx.flags) => ~NoBuiltin
        /\ stepped.result.ok
            => /\ stepped.ctx.op0 = Value_Pointer(ReturnAddress)
               /\ stepped.ctx.dst = Value_Pointer(cpu.fp)
        /\ (/\ MemoryAt(memory, stepped.ctx.op0_addr).some
            /\ MemoryAt(memory, stepped.ctx.op0_addr) # Some(Value_Pointer(ReturnAddress)))
                => stepped.result = Err("Contradiction")
        /\ (/\ MemoryAt(memory, stepped.ctx.dst_addr).some
            /\ MemoryAt(memory, stepped.ctx.dst_addr) # Some(Value_Pointer(cpu.fp)))
                => stepped.result = Err("Contradiction")

\* the step ran the deduction of an AssertEq instruction with res_logic Add
SteppedAssertEqAdd ==
    /\ SteppedWithContext
    /\ stepped.result.ok
    /\ Instruction_op_code(stepped.ctx.instruction) = Ok("AssertEq")
    /\ Instruction_result_logic(stepped.ctx.instruction) = Ok("Add")

\* C10: after a step of an AssertEq instruction with res_logic Add whose dst
\* and op0 were read from memory as scalars and whose op1 was unknown, op1 is
\* deduced and op0 + op1 = dst in the field; symmetrically op0 is deduced with
\* op0 + op1 = dst when dst and op1 were read as scalars and op0 was unknown.
C10_AddDeduction ==
    LET ctx == stepped.ctx IN
    SteppedAssertEqAdd =>
        /\ (/\ DST_ASSERTED \subseteq ctx.flags /\ ctx.dst.kind = "Scalar"
            /\ OP0_ASSERTED \subseteq ctx.flags /\ ctx.op0.kind = "Scalar"
            /\ ~(OP1_ASSERTED \subseteq ctx.flags))
                => /\ OP1_DEDUCED \subseteq ctx.flags
                   /\ ctx.op1 = Value_Scalar(FeltSub(ctx.dst.felt, ctx.op0.felt))
                   /\ Value_Scalar(FeltAdd(ctx.op0.felt, ctx.op1.felt)) = ctx.dst
        /\ (/\ DST_ASSERTED \subseteq ctx.flags /\ ctx.dst.kind = "Scalar"
            /\ OP1_ASSERTED \subseteq ctx.flags /\ ctx.op1.kind = "Scalar"
            /\ ~(OP0_ASSERTED \subseteq ctx.flags))
                => /\ OP0_DEDUCED \subseteq ctx.flags
                   /\ Value_Scalar(FeltAdd(ctx.op0.felt, ctx.op1.felt)) = ctx.dst

\* pc + n for a scalar n that fits a usize
PcPlusScalar(c, v) == Pointer_wrapping_add(c.pc, FeltToUsize(v.felt).v)

\* the operands of the conditional jump words: op1 is the scalar after the
\* instruction, dst the scalar at fp, op0 the known cell at ap
CondJmpOperands ==
    /\ MemoryAt(memory, Pointer_wrapping_add(cpu.pc, 1)).some
    /\ MemoryAt(memory, Pointer_wrapping_add(cpu.pc, 1)).v.kind = "Scalar"
    /\ MemoryAt(memory, cpu.fp).some
    /\ MemoryAt(memory, cpu.fp).v.kind = "Scalar"
    /\ MemoryAt(memory, cpu.ap).some
    /\ NoBuiltin

\* C11: a step of a well-formed conditional jump (ConditionalJump, Op1,
\* opcode None, AddResult) whose operands are known succeeds and sets pc to
\* pc + op1 when dst is not zero, and to pc + instr_size (2) when dst is
\* Scalar(0).
C11_ConditionalJumpSetsPc ==
    [][(InstructionAt(cpu, memory) = Some(CondJmpWord) /\ CondJmpOperands)
            => /\ stepped'.result = Ok(Unit)
               /\ cpu'.pc =
                    IF FeltIsZero(MemoryAt(memory, cpu.fp).v.felt)
                    THEN Pointer_wrapping_add(cpu.pc, 2)
                    ELSE PcPlusScalar(cpu, MemoryAt(memory, Pointer_wrapping_add(cpu.pc, 1)).v)]_vars

\* C12: a step of a ConditionalJump instruction whose res_logic is not Op1
\* (Add), or whose opcode is not None (AssertEq), or whose ap_update is not
\* AddResult (None), fails with UndefinedConditionalJump.
C12_MalformedConditionalJump ==
    [][(/\ InstructionAt(cpu, memory)
            \in {Some(CondJmpAddWord), Some(CondJmpAssertEqWord), Some(CondJmpNoApWord)}
        /\ CondJmpOperands)
            => stepped'.result = Err("UndefinedConditionalJump")]_vars

\* the instruction word at pc has bit 63 set
LastBitSetAt(c, mem) ==
    /\ InstructionAt(c, mem).some
    /\ InstructionAt(c, mem).v[4] >= 32768

\* C13: a step that fetches an instruction word with bit 63 set fails with
\* UndefinedInstruction, whatever the other bits of the word are, and leaves
\* pc, ap and fp unchanged.
C13_LastBitUndefinedInstruction ==
    [][LastBitSetAt(cpu, memory)
            => /\ stepped'.result = Err("UndefinedInstruction")
               /\ cpu' = cpu]_vars

\* a step was made on a word with bit 63 set and the undefined opcode 0b011
C13_Witness ==
    /\ stepped # NoStep
    /\ InstructionAt(cpu, memory) = Some(<<0, 0, 1, 32768 + 12288>>)
    /\ stepped.result = Err("UndefinedInstruction")

\* a field element is an integer of 0 .. 2^64 - 1
FitsU64(a) == a.den = 1 /\ ~a.neg /\ Len(a.mag) <= 4

\* C14: after a step, if the cell at pc is unknown or holds a Pointer the
\* result is ProgramCounterLost; if it holds a Scalar that is no unsigned
\* 64-bit integer the result is UndefinedInstruction; otherwise the fetch
\* succeeded and the instruction of the step is exactly that scalar (a step
\* that made no StepContext stopped at bit 63 of it).
C14_InstructionFetch ==
    stepped # NoStep =>
        LET cell == MemoryAt(memory, cpu.pc) IN
        IF ~cell.some THEN stepped.result = Err("ProgramCounterLost")
        ELSE IF cell.v.kind = "Pointer" THEN stepped.result = Err("ProgramCounterLost")
        ELSE IF ~FitsU64(cell.v.felt) THEN stepped.result = Err("UndefinedInstruction")
        ELSE /\ stepped.result # Err("ProgramCounterLost")
             /\ IF stepped.ctx = NoContext
                THEN /\ stepped.result = Err("UndefinedInstruction")
                     /\ Limb(cell.v.felt.mag, 4) >= 32768
                ELSE FeltFromWord(stepped.ctx.instruction) = cell.v.felt

\* a step was made on a scalar cell that is no unsigned 64-bit integer
C14_Witness ==
    /\ stepped # NoStep
    /\ MemoryAt(memory, cpu.pc).some
    /\ MemoryAt(memory, cpu.pc).v.kind = "Scalar"
    /\ ~FitsU64(MemoryAt(memory, cpu.pc).v.felt)
    /\ stepped.result = Err("UndefinedInstruction")

\* C15: a builtin that cannot deduce a cell is no error: no step fails
\* because the builtin of an operand's segment returned CannotDeduce (the
\* builtins of the model fail in no other way).
C15_CannotDeduceIsNoError ==
    stepped # NoStep => stepped.result # Err("Builtin")

\* C17: a step that returns an error leaves pc, ap, fp and every cell of
\* the memory as they were before the call.
C17_FailedStepChangesNothing ==
    [][~stepped'.result.ok => (cpu' = cpu /\ memory' = memory)]_vars

\* a step failed after it probed the operands
C17_Witness ==
    /\ SteppedWithContext
    /\ ~stepped.result.ok

\* C27: Contradiction is raised by assert_eq alone, and memory is written
\* by assert_eq alone.  A step makes no call of Segment::assert_eq, so no
\* Contradiction it returns comes out of one: a step never ends in
\* Contradiction, and never changes the memory.
C27_ContradictionOnlyFromAssertEq ==
    [][/\ stepped'.result # Err("Contradiction")
       /\ memory' = memory]_vars

\* the operand of the two flags has a value: it was asserted or deduced
Known(flags, flagAsserted, flagDeduced) ==
    flagAsserted \subseteq flags \/ flagDeduced \subseteq flags

\* the step ran on an AssertEq instruction whose res_logic needs both operands
SteppedAssertEqBinary ==
    /\ SteppedWithContext
    /\ Instruction_op_code(stepped.ctx.instruction) = Ok("AssertEq")
    /\ Instruction_result_logic(stepped.ctx.instruction) \in {Ok("Add"), Ok("Mul")}

\* C28: a step never returns Ok while an operand the instruction needs is
\* unknown after memory probing, builtin deduction and opcode deduction
\* (it fails with CantDeduceOp0, CantDeduceOp1 or CantDeduceDst): after a
\* step of an AssertEq with res_logic Add or Mul that returned Ok, dst, op0
\* and op1 are each asserted or deduced.
C28_UnknownOperandFails ==
    (SteppedAssertEqBinary /\ stepped.result = Ok(Unit)) =>
        /\ Known(stepped.ctx.flags, DST_ASSERTED, DST_DEDUCED)
        /\ Known(stepped.ctx.flags, OP0_ASSERTED, OP0_DEDUCED)
        /\ Known(stepped.ctx.flags, OP1_ASSERTED, OP1_DEDUCED)

\* C29: in every state a sequence of steps reaches, ap.segment and
\* fp.segment are those of the initialization, and pc.segment, ap.segment
\* and fp.segment each index a segment of the memory.
C29_RegisterSegments ==
    /\ cpu.ap.segment = InitialCpu.ap.segment
    /\ cpu.fp.segment = InitialCpu.fp.segment
    /\ \A r \in {cpu.pc, cpu.ap, cpu.fp} : ULt(r.segment, Len(memory))

\* a step of `[ap] = imm; ap++` returned Ok
C29_Witness ==
    /\ InstructionAt(cpu, memory) = Some(AssertImmediateWord)
    /\ stepped # NoStep
    /\ stepped.result = Ok(Unit)
    /\ cpu.ap.segment = 1 /\ cpu.fp.segment = 1

\* the register of a name
RegisterOf(c, name) == IF name = "AP" THEN c.ap ELSE c.fp

\* register + off, the signed offset added to the offset of the pointer
RegisterPlus(c, name, off) ==
    Pointer(RegisterOf(c, name).segment, WrappingAdd(RegisterOf(c, name).offset, off))

\* C30: in a step, dst_addr is ap (dst_reg AP) or fp (dst_reg FP) with the
\* signed dst_off added to the offset, op0_addr is ap or fp (by op0_reg)
\* with op0_off added; dst is marked asserted exactly when memory holds a
\* known value at that dst_addr, and dst is then that value.
C30_AddressResolution ==
    SteppedWithContext =>
        LET ctx == stepped.ctx
            dst_addr == RegisterPlus(cpu, Instruction_dst_register(ctx.instruction),
                                     Instruction_dst_offset(ctx.instruction))
            op0_addr == RegisterPlus(cpu, Instruction_op0_register(ctx.instruction),
                                     Instruction_op0_offset(ctx.instruction))
        IN  /\ ctx.dst_addr = dst_addr
            /\ ctx.op0_addr = op0_addr
            /\ (DST_ASSERTED \subseteq ctx.flags) <=> MemoryAt(memory, dst_addr).some
            /\ (DST_ASSERTED \subseteq ctx.flags) => Some(ctx.dst) = MemoryAt(memory, dst_addr)

---------------------------------------------------------------------------
(* Claims about BuiltinManager::get_runner, checked under RunnerSpec.      *)

\* C16: get_runner(seg) returns the builtin at position seg - min_segment
\* of the ordered list (the i-th builtin for seg = min_segment + i - 1,
\* which are the segments of min_segment <= seg < max_segment), and none for
\* every other segment index.
C16_GetRunner ==
    call.op = "get_runner" =>
        /\ \A i \in 1..Len(builtins.builtins) :
                call.segment = builtins.min_segment + (i - 1)
                    => call.result = Some(builtins.builtins[i])
        /\ (\A i \in 1..Len(builtins.builtins) :
                call.segment # builtins.min_segment + (i - 1))
                    => call.result = None

\* get_runner returned a builtin that is not the first of the list
C16_Witness ==
    /\ call.op = "get_runner"
    /\ call.result.some
    /\ call.segment > builtins.min_segment
    /\ builtins.min_segment > 0

---------------------------------------------------------------------------
(* Claims about the arithmetic of Value, checked under ValueSpec.          *)

\* the call made was left.op(right) on operands of these two kinds
ValueCall(op, leftKind, rightKind) ==
    /\ call.op = op
    /\ call.left.kind = leftKind
    /\ call.right.kind = rightKind

\* the scalar n, read as an offset, moved the pointer q to the result
OffsetAdded(q, n) ==
    /\ call.result.ok
    /\ call.result.v.kind = "Pointer"
    /\ call.result.v.pointer.segment = q.segment
    /\ FeltToUsize(n).some
    /\ call.result.v.pointer.offset = WrappingAdd(q.offset, FeltToUsize(n).v)

OffsetSubtracted(q, n) ==
    /\ call.result.ok
    /\ call.result.v.kind = "Pointer"
    /\ call.result.v.pointer.segment = q.segment
    /\ FeltToUsize(n).some
    /\ call.result.v.pointer.offset = WrappingSub(q.offset, FeltToUsize(n).v)

\* C18, as stated: Value::add gives Scalar(a + b) for two scalars, a
\* Pointer in the pointer's segment with the scalar added to its offset for
\* every Scalar + Pointer and Pointer + Scalar, and InvalidPointerArithmetic
\* for two pointers.
C18_AddTable_AsStated ==
    /\ ValueCall("add", "Scalar", "Scalar")
        => call.result = Ok(Value_Scalar(FeltAdd(call.left.felt, call.right.felt)))
    /\ ValueCall("add", "Scalar", "Pointer")
        => OffsetAdded(call.right.pointer, call.left.felt)
    /\ ValueCall("add", "Pointer", "Scalar")
        => OffsetAdded(call.left.pointer, call.right.felt)
    /\ ValueCall("add", "Pointer", "Pointer")
        => call.result = Err("InvalidPointerArithmetic")

\* C18, amended: as above, where Scalar + Pointer and Pointer + Scalar give
\* the Pointer when the scalar fits a usize and fail with PointerTooLarge
\* when it does not.
C18_AddTable ==
    /\ ValueCall("add", "Scalar", "Scalar")
        => call.result = Ok(Value_Scalar(FeltAdd(call.left.felt, call.right.felt)))
    /\ ValueCall("add", "Scalar", "Pointer")
        => IF FeltToUsize(call.left.felt).some
           THEN OffsetAdded(call.right.pointer, call.left.felt)
           ELSE call.result = Err("PointerTooLarge")
    /\ ValueCall("add", "Pointer", "Scalar")
        => IF FeltToUsize(call.right.felt).some
           THEN OffsetAdded(call.left.pointer, call.right.felt)
           ELSE call.result = Err("PointerTooLarge")
    /\ ValueCall("add", "Pointer", "Pointer")
        => call.result = Err("InvalidPointerArithmetic")

\* Scalar(2) + Pointer(0, usize::MAX) was computed: the offset wrapped to 1
C18_Witness ==
    /\ ValueCall("add", "Scalar", "Pointer")
    /\ call.left = Value_Scalar(FeltFrom(2))
    /\ call.right = Value_Pointer(Pointer(0, UsizeMax))
    /\ call.result = Ok(Value_Pointer(Pointer(0, 1)))

\* C19, as stated: Value::subtract gives Scalar(a - b) for two scalars,
\* InvalidPointerArithmetic for Scalar - Pointer, a Pointer in the same
\* segment with the scalar subtracted from its offset for every
\* Pointer - Scalar, and IncoherentProvenance for two pointers of different
\* segments.
C19_SubtractTable_AsStated ==
    /\ ValueCall("subtract", "Scalar", "Scalar")
        => call.result = Ok(Value_Scalar(FeltSub(call.left.felt, call.right.felt)))
    /\ ValueCall("subtract", "Scalar", "Pointer")
        => call.result = Err("InvalidPointerArithmetic")
    /\ ValueCall("subtract", "Pointer", "Scalar")
        => OffsetSubtracted(call.left.pointer, call.right.felt)
    /\ (/\ ValueCall("subtract", "Pointer", "Pointer")
        /\ call.left.pointer.segment # call.right.pointer.segment)
        => call.result = Err("IncoherentProvenance")

\* C19, amended: as above, where Pointer - Scalar gives the Pointer when the
\* scalar fits a usize and fails with PointerTooLarge when it does not.
C19_SubtractTable ==
    /\ ValueCall("subtract", "Scalar", "Scalar")
        => call.result = Ok(Value_Scalar(FeltSub(call.left.felt, call.right.felt)))
    /\ ValueCall("subtract", "Scalar", "Pointer")
        => call.result = Err("InvalidPointerArithmetic")
    /\ ValueCall("subtract", "Pointer", "Scalar")
        => IF FeltToUsize(call.right.felt).some
           THEN OffsetSubtracted(call.left.pointer, call.right.felt)
           ELSE call.result = Err("PointerTooLarge")
    /\ (/\ ValueCall("subtract", "Pointer", "Pointer")
        /\ call.left.pointer.segment # call.right.pointer.segment)
        => call.result = Err("IncoherentProvenance")

\* Pointer(0, 1) - Scalar(2) was computed: the offset wrapped to usize::MAX
C19_Witness ==
    /\ ValueCall("subtract", "Pointer", "Scalar")
    /\ call.left = Value_Pointer(Pointer(0, 1))
    /\ call.right = Value_Scalar(FeltFrom(2))
    /\ call.result = Ok(Value_Pointer(Pointer(0, UsizeMax)))

\* the field element of an offset, a usize given by its signed reading
OffsetFelt(o) ==
    IF o >= 0 THEN FeltFrom(o)
    ELSE FeltAdd(FeltFromWord(<<0, 0, 0, 0, 1>>), FeltFrom(o))

\* the signed integer of a small field element
FeltToIsize(a) == IF a.neg THEN 0 - MagInt(a.mag) ELSE MagInt(a.mag)

\* C20: for two pointers p, q of one segment, subtract(Pointer(p),
\* Pointer(q)) is Scalar(p.offset - q.offset) in the field (the negation of
\* q.offset - p.offset when p.offset < q.offset), and q moved by that
\* distance in wrapping offset arithmetic is p.
C20_PointerDistance ==
    (/\ ValueCall("subtract", "Pointer", "Pointer")
     /\ call.left.pointer.segment = call.right.pointer.segment)
        => /\ call.result =
                Ok(Value_Scalar(FeltSub(OffsetFelt(call.left.pointer.offset),
                                        OffsetFelt(call.right.pointer.offset))))
           /\ Pointer_wrapping_add(call.right.pointer, FeltToIsize(call.result.v.felt))
                = call.left.pointer

\* C21: Value::divide(a, b) is Scalar(a / b), the scalar q with q * b = a,
\* for two scalars with b not zero; DivideByZero for two scalars with b
\* zero; InvalidPointerArithmetic whenever a or b is a Pointer, also for a
\* Pointer divided by Scalar(0).  Value::multiply is Scalar(a * b) for two
\* scalars and InvalidPointerArithmetic whenever a or b is a Pointer.
C21_DivideMultiplyTable ==
    /\ (ValueCall("divide", "Scalar", "Scalar") /\ ~FeltIsZero(call.right.felt))
        => /\ call.result.ok
           /\ call.result.v.kind = "Scalar"
           /\ FeltMul(call.result.v.felt, call.right.felt) = call.left.felt
    /\ (ValueCall("divide", "Scalar", "Scalar") /\ FeltIsZero(call.right.felt))
        => call.result = Err("DivideByZero")
    /\ (call.op = "divide" /\ "Pointer" \in {call.left.kind, call.right.kind})
        => call.result = Err("InvalidPointerArithmetic")
    /\ ValueCall("multiply", "Scalar", "Scalar")
        => call.result = Ok(Value_Scalar(FeltMul(call.left.felt, call.right.felt)))
    /\ (call.op = "multiply" /\ "Pointer" \in {call.left.kind, call.right.kind})
        => call.result = Err("InvalidPointerArithmetic")

\* a field element is an integer of 0 .. 2^64 - 1, the range of a usize
FitsUsize(a) == a.den = 1 /\ ~a.neg /\ Len(a.mag) <= 4

\* C22: when add or subtract has to use a Scalar as a pointer offset
\* (Scalar + Pointer, Pointer + Scalar, Pointer - Scalar) and the field
\* element fits no usize, the call fails with PointerTooLarge.
C22_PointerTooLarge ==
    /\ (ValueCall("add", "Scalar", "Pointer") /\ ~FitsUsize(call.left.felt))
        => call.result = Err("PointerTooLarge")
    /\ (ValueCall("add", "Pointer", "Scalar") /\ ~FitsUsize(call.right.felt))
        => call.result = Err("PointerTooLarge")
    /\ (ValueCall("subtract", "Pointer", "Scalar") /\ ~FitsUsize(call.right.felt))
        => call.result = Err("PointerTooLarge")

\* Pointer(0, 1) - Scalar(p - 1) was computed
C22_Witness ==
    /\ ValueCall("subtract", "Pointer", "Scalar")
    /\ call.left = Value_Pointer(Pointer(0, 1))
    /\ call.right = Value_Scalar(FeltFrom(0 - 1))
    /\ call.result = Err("PointerTooLarge")

---------------------------------------------------------------------------
(* Claims about the Instruction decoders, checked under InstrSpec.         *)

\* the n bits from bit lo of a natural
Bits(f, lo, n) == (f \div 2^lo) % 2^n

\* s is the signed 16-bit two's-complement reading of a 16-bit field
IsI16Of(s, field) ==
    /\ s \in (0 - 32768)..32767
    /\ (s - field) % 65536 = 0

\* C23: dst_offset, op0_offset and op1_offset are bits 0..15, 16..31 and
\* 32..47 of the word read as signed 16-bit two's-complement integers
\* (0xFFFF is -1 and 0x8000 is -32768), and dst_register / op0_register
\* are FP exactly when bit 48 / bit 49 is set, AP otherwise.
C23_OffsetsAndRegisters ==
    call.op = "decode" =>
        /\ IsI16Of(call.dst_offset, call.word[1])
        /\ IsI16Of(call.op0_offset, call.word[2])
        /\ IsI16Of(call.op1_offset, call.word[3])
        /\ call.word[1] = 65535 => call.dst_offset = 0 - 1
        /\ call.word[2] = 32768 => call.op0_offset = 0 - 32768
        /\ call.dst_register = (IF Bits(call.word[4], 0, 1) = 1 THEN "FP" ELSE "AP")
        /\ call.op0_register = (IF Bits(call.word[4], 1, 1) = 1 THEN "FP" ELSE "AP")

\* a word with the fields 0xFFFF, 0x8000, 1 and bit 49 alone of the two
\* register flags was decoded
C23_Witness ==
    /\ call.op = "decode"
    /\ call.word[1] = 65535 /\ call.word[2] = 32768 /\ call.word[3] = 1
    /\ call.dst_offset = 0 - 1 /\ call.op0_offset = 0 - 32768 /\ call.op1_offset = 1
    /\ call.dst_register = "AP" /\ call.op0_register = "FP"

\* the decoding the layout gives a flag field: the variant of `table` at
\* the pattern, the error `undefined` for a pattern outside the table
Decoded(table, pattern, undefined) ==
    IF pattern \in DOMAIN table THEN Ok(table[pattern]) ELSE Err(undefined)

Op1SourceTable == (0 :> "Op0") @@ (1 :> "PC") @@ (2 :> "FP") @@ (4 :> "AP")
ResultLogicTable == (0 :> "Op1") @@ (1 :> "Add") @@ (2 :> "Mul")
PcUpdateTable ==
    (0 :> "Regular") @@ (1 :> "AbsoluteJump") @@ (2 :> "RelativeJump")
        @@ (4 :> "ConditionalJump")
ApUpdateTable == (0 :> "None") @@ (1 :> "AddResult") @@ (2 :> "Increment")
OpCodeTable == (0 :> "None") @@ (1 :> "Call") @@ (2 :> "Ret") @@ (4 :> "AssertEq")

\* C24: op1_source reads bits 50..52 as 0b000 Op0, 0b001 PC, 0b010 FP,
\* 0b100 AP, else UndefinedOp1Source; result_logic reads bits 53..54 as
\* Op1, Add, Mul, with 0b11 UndefinedResultLogic; pc_update reads bits
\* 55..57 as 0b000 Regular, 0b001 AbsJmp, 0b010 RelJmp, 0b100 CondJmp, else
\* UndefinedPcUpdate; ap_update reads bits 58..59 as None, AddRes, Inc, with
\* 0b11 UndefinedApUpdate; each result is a function of its own bits alone.
C24_FlagDecoders ==
    call.op = "decode" =>
        /\ call.op1_source
            = Decoded(Op1SourceTable, Bits(call.word[4], 2, 3), "UndefinedOp1Source")
        /\ call.result_logic
            = Decoded(ResultLogicTable, Bits(call.word[4], 5, 2), "UndefinedResultLogic")
        /\ call.pc_update
            = Decoded(PcUpdateTable, Bits(call.word[4], 7, 3), "UndefinedPcUpdate")
        /\ call.ap_update
            = Decoded(ApUpdateTable, Bits(call.word[4], 10, 2), "UndefinedApUpdate")

\* a word was decoded whose ap_update is Increment under an opcode bit, an
\* undefined pc_update 0b011 and an undefined op1_source 0b111
C24_Witness ==
    /\ call.op = "decode"
    /\ call.word[4] = 4 + 8 + 16 + 32 + 128 + 256 + 2048 + 4096
    /\ call.op1_source = Err("UndefinedOp1Source")
    /\ call.result_logic = Ok("Add")
    /\ call.pc_update = Err("UndefinedPcUpdate")
    /\ call.ap_update = Ok("Increment")

\* C25: op_code reads bits 60..63 as None = 0, Call = 1, Ret = 2,
\* AssertEq = 4, and is UndefinedOpCode for every other pattern (3, 5, 6,
\* 7 and every pattern with bit 63); a step on a word with bit 63 set
\* never reports UndefinedOpCode: it reports UndefinedInstruction.
C25_OpCode ==
    /\ call.op = "decode" =>
        /\ call.op_code = Decoded(OpCodeTable, Bits(call.word[4], 12, 4), "UndefinedOpCode")
        /\ Bits(call.word[4], 15, 1) = 1 => call.op_code = Err("UndefinedOpCode")
    /\ (call.op = "step" /\ Bits(call.word[4], 15, 1) = 1) =>
        /\ stepped.result # Err("UndefinedOpCode")
        /\ stepped.result = Err("UndefinedInstruction")

\* a step was made on a word with bit 63 and the opcode bits of Call
C25_Witness ==
    /\ call.op = "step"
    /\ Bits(call.word[4], 12, 4) = 8 + 1
    /\ stepped.result = Err("UndefinedInstruction")

\* the word is accepted by every decoder
Accepted(d) ==
    /\ ~d.is_last_bit_set
    /\ d.op1_source.ok /\ d.result_logic.ok /\ d.pc_update.ok
    /\ d.ap_update.ok /\ d.op_code.ok

\* the 16-bit field of a signed offset
AsU16(s) == s % 65536

\* the discriminant of a variant in the table of its enum
Discriminant(table, variant) == CHOOSE k \in DOMAIN table : table[k] = variant

RegisterTable == (0 :> "AP") @@ (1 :> "FP")

\* the word that holds the typed fields at their bit positions
Pack(d) ==
    <<AsU16(d.dst_offset), AsU16(d.op0_offset), AsU16(d.op1_offset),
      Discriminant(RegisterTable, d.dst_register)
        + 2 * Discriminant(RegisterTable, d.op0_register)
        + 4 * Discriminant(Op1SourceTable, d.op1_source.v)
        + 32 * Discriminant(ResultLogicTable, d.result_logic.v)
        + 128 * Discriminant(PcUpdateTable, d.pc_update.v)
        + 1024 * Discriminant(ApUpdateTable, d.ap_update.v)
        + 4096 * Discriminant(OpCodeTable, d.op_code.v)>>

\* C26: for every word that all decoders accept (bit 63 clear, every flag
\* field a defined pattern), packing the decoded fields at their bit
\* positions gives the word back.
C26_RoundTrip ==
    (call.op = "decode" /\ Accepted(call)) => Pack(call) = call.word

\* the word of `ret`-like flags with the offsets -1, i16::MIN and 1 was
\* decoded and accepted
C26_Witness ==
    /\ call.op = "decode"
    /\ Accepted(call)
    /\ call.word = <<65535, 32768, 1, 1 + 2 + 8 + 64 + 128 + 2048 + 8192>>
    /\ call.op0_offset = 0 - 32768
    /\ call.op_code = Ok("Ret")

---------------------------------------------------------------------------
(* Claims about the phases of CairoVM::step, checked under VmSpec.         *)

\* a step was made on a fetched word whose bit 63 is clear
SteppedOnWord ==
    /\ stepped # NoStep
    /\ InstructionAt(cpu, memory) # None
    /\ Bits(InstructionAt(cpu, memory).v[4], 15, 1) = 0

\* the signed reading of a 16-bit field
SignedField(field) == ((field + 32768) % 65536) - 32768

\* p with the signed offset added to its offset
PointerPlus(p, off) == Pointer(p.segment, WrappingAdd(p.offset, off))

\* the register a flag bit of the word selects
RegisterByBit(c, bit) == IF bit = 1 THEN c.fp ELSE c.ap

\* C31: op1_addr is op0_addr, pc, fp or ap by op1_src (Op0, PC, FP, AP)
\* with the signed op1_off added to the offset; the instruction size is 2
\* exactly when op1_src is PC and 1 otherwise; an undefined op1_src
\* pattern makes the step fail with UndefinedOp1Source.
C31_Op1Address ==
    SteppedOnWord =>
        LET w == InstructionAt(cpu, memory).v
            source == Bits(w[4], 2, 3)
            op0_addr == PointerPlus(RegisterByBit(cpu, Bits(w[4], 1, 1)), SignedField(w[2]))
            base == CASE source = 0 -> op0_addr
                      [] source = 1 -> cpu.pc
                      [] source = 2 -> cpu.fp
                      [] source = 4 -> cpu.ap
        IN  IF source \notin DOMAIN Op1SourceTable
            THEN stepped.result = Err("UndefinedOp1Source")
            ELSE /\ stepped.result # Err("UndefinedOp1Source")
                 /\ stepped.ctx.op1_addr = PointerPlus(base, SignedField(w[3]))
                 /\ (SIZE_TWO \subseteq stepped.ctx.flags) <=> source = 1
                 /\ StepContextFlags_instruction_size(stepped.ctx.flags)
                        = (IF source = 1 THEN 2 ELSE 1)

\* a step of `ret` resolved op1 at fp - 1, one cell long
C31_Witness ==
    /\ SteppedOnWord
    /\ stepped.ctx # NoContext
    /\ stepped.ctx.instruction = RetWord
    /\ stepped.ctx.op1_addr = Pointer(cpu.fp.segment, cpu.fp.offset - 1)
    /\ StepContextFlags_instruction_size(stepped.ctx.flags) = 1

\* the step returned Ok on an instruction whose opcode deduces nothing, so
\* that its context is the one the builtin phase left
SteppedPastBuiltins ==
    /\ SteppedWithContext
    /\ stepped.result = Ok(Unit)
    /\ Instruction_op_code(stepped.ctx.instruction) \in {Ok("None"), Ok("Ret")}

\* the builtin of the segment of an address, when there is one
RunnerAt(addr) == BuiltinManager_get_runner(builtins, addr.segment)

\* an operand at addr, of the given value and deduced flag, went through
\* the builtin phase as required: a cell known in memory keeps its value
\* and is no deduction; an unknown cell of a builtin segment holds what
\* the builtin deduces
BuiltinPhaseOk(addr, value, flagDeduced) ==
    IF MemoryAt(memory, addr).some
    THEN /\ value = MemoryAt(memory, addr).v
         /\ ~(flagDeduced \subseteq stepped.ctx.flags)
    ELSE RunnerAt(addr).some =>
            /\ flagDeduced \subseteq stepped.ctx.flags
            /\ Ok(value) = Builtin_deduce(RunnerAt(addr).v, addr.offset,
                                           Memory_segment_unchecked(memory, addr.segment))

\* C32: builtin deduction is attempted only for operands still unknown
\* after memory probing: an operand asserted from memory is never passed
\* to a builtin and keeps its value; and every operand still unknown (dst,
\* op0, op1) whose address lies in a builtin segment is offered to that
\* segment's builtin.
C32_BuiltinsOnlyForUnknown ==
    SteppedPastBuiltins =>
        LET ctx == stepped.ctx
            w == ctx.instruction
            dst_addr == PointerPlus(RegisterByBit(cpu, Bits(w[4], 0, 1)), SignedField(w[1]))
        IN  /\ BuiltinPhaseOk(ctx.op0_addr, ctx.op0, OP0_DEDUCED)
            /\ BuiltinPhaseOk(ctx.op1_addr, ctx.op1, OP1_DEDUCED)
            /\ (~MemoryAt(memory, dst_addr).some /\ RunnerAt(dst_addr).some)
                    => DST_DEDUCED \subseteq ctx.flags

\* C33: the operand-known predicates are disjunctive: has_dst (has_op0,
\* has_op1) is true whenever the ASSERTED flag or the DEDUCED flag of the
\* operand is set, false only when neither is; an operand read from memory
\* (asserted only) counts as known.
C33_HasIsDisjunctive ==
    SteppedWithContext =>
        LET flags == stepped.ctx.flags IN
        /\ StepContextFlags_has_dst(flags) <=> Known(flags, DST_ASSERTED, DST_DEDUCED)
        /\ StepContextFlags_has_op0(flags) <=> Known(flags, OP0_ASSERTED, OP0_DEDUCED)
        /\ StepContextFlags_has_op1(flags) <=> Known(flags, OP1_ASSERTED, OP1_DEDUCED)

\* the step returned Ok on an AssertEq instruction
SteppedAssertEq ==
    /\ SteppedWithContext
    /\ stepped.result = Ok(Unit)
    /\ Instruction_op_code(stepped.ctx.instruction) = Ok("AssertEq")

\* an operand at addr ends the step with the value of the earliest phase
\* that knows it: the builtin's value for a cell unknown in memory that
\* the builtin of its segment deduces, the cell's value for a cell known
\* in memory outside every builtin segment
KeptThroughInversion(addr, value, flagDeduced) ==
    /\ (~MemoryAt(memory, addr).some /\ RunnerAt(addr).some)
            => /\ flagDeduced \subseteq stepped.ctx.flags
               /\ Ok(value) = Builtin_deduce(RunnerAt(addr).v, addr.offset,
                                              Memory_segment_unchecked(memory, addr.segment))
    /\ (MemoryAt(memory, addr).some /\ ~RunnerAt(addr).some)
            => value = MemoryAt(memory, addr).v

\* C34: the deductions of a step run in the order memory probing,
\* builtins, opcode inversion: an operand of an AssertEq instruction that
\* is unknown in memory and that the builtin of its segment deduces takes
\* the builtin's value, and the opcode inversion neither recomputes it nor
\* overwrites an operand known before it.
C34_BuiltinsBeforeInversion ==
    SteppedAssertEq =>
        /\ KeptThroughInversion(stepped.ctx.op0_addr, stepped.ctx.op0, OP0_DEDUCED)
        /\ KeptThroughInversion(stepped.ctx.op1_addr, stepped.ctx.op1, OP1_DEDUCED)

\* an AssertEq step whose op0 cell was unknown took the builtin's value
\* for op0, next to an op1 read from memory
C34_Witness ==
    /\ SteppedAssertEq
    /\ ~MemoryAt(memory, stepped.ctx.op0_addr).some
    /\ RunnerAt(stepped.ctx.op0_addr).some
    /\ stepped.ctx.op0 = Value_Scalar(FeltFrom(3))
    /\ OP0_DEDUCED \subseteq stepped.ctx.flags
    /\ MemoryAt(memory, stepped.ctx.op1_addr).some
    /\ OP1_ASSERTED \subseteq stepped.ctx.flags

\* a step ran on an AssertEq instruction of the given res_logic with no
\* builtin registered, and none of its phases before the opcode deduction
\* failed
SteppedAssertEqOf(res_logic) ==
    /\ SteppedWithContext
    /\ NoBuiltin
    /\ Instruction_op1_source(stepped.ctx.instruction).ok
    /\ Instruction_op_code(stepped.ctx.instruction) = Ok("AssertEq")
    /\ Instruction_result_logic(stepped.ctx.instruction) = Ok(res_logic)

\* what the inversion dst / known has to give: the error of a division by
\* a pointer or of a pointer, the error of a division by Scalar(0), or a
\* missing operand with known * missing = dst
MulInversion(dst, known, missing, flagDeduced) ==
    IF "Pointer" \in {dst.kind, known.kind}
    THEN stepped.result = Err("InvalidPointerArithmetic")
    ELSE IF FeltIsZero(known.felt)
    THEN stepped.result = Err("DivideByZero")
    ELSE /\ stepped.result = Ok(Unit)
         /\ flagDeduced \subseteq stepped.ctx.flags
         /\ missing.kind = "Scalar"
         /\ FeltMul(known.felt, missing.felt) = dst.felt

\* C35: in an AssertEq with res_logic Mul and dst known, the missing
\* operand is deduced as dst / known, so that op0 * op1 = dst; the step
\* fails with DivideByZero when the known operand is Scalar(0) and with
\* InvalidPointerArithmetic when it or dst is a Pointer.  With res_logic
\* Op1, op1 alone is deduced, op1 = dst, and op0 is never deduced from op1.
C35_MulInversion ==
    LET ctx == stepped.ctx IN
    /\ (/\ SteppedAssertEqOf("Mul")
        /\ DST_ASSERTED \subseteq ctx.flags /\ OP0_ASSERTED \subseteq ctx.flags
        /\ ~(OP1_ASSERTED \subseteq ctx.flags))
            => MulInversion(ctx.dst, ctx.op0, ctx.op1, OP1_DEDUCED)
    /\ (/\ SteppedAssertEqOf("Mul")
        /\ DST_ASSERTED \subseteq ctx.flags /\ OP1_ASSERTED \subseteq ctx.flags
        /\ ~(OP0_ASSERTED \subseteq ctx.flags))
            => MulInversion(ctx.dst, ctx.op1, ctx.op0, OP0_DEDUCED)
    /\ (/\ SteppedAssertEqOf("Op1")
        /\ DST_ASSERTED \subseteq ctx.flags)
            => /\ stepped.result = Ok(Unit)
               /\ ~(OP0_DEDUCED \subseteq ctx.flags)
               /\ ~(OP1_ASSERTED \subseteq ctx.flags)
                    => (OP1_DEDUCED \subseteq ctx.flags /\ ctx.op1 = ctx.dst)

---------------------------------------------------------------------------
(* Claims about a step on every instruction word, checked under InstrSpec. *)

\* the structural errors the step owes a word with bit 63 clear: one for
\* each flag field whose bits are an undefined pattern
MalformedFields(f) ==
    {e \in {"UndefinedPcUpdate", "UndefinedApUpdate", "UndefinedResultLogic"} :
        \/ e = "UndefinedPcUpdate" /\ Bits(f, 7, 3) \notin DOMAIN PcUpdateTable
        \/ e = "UndefinedApUpdate" /\ Bits(f, 10, 2) \notin DOMAIN ApUpdateTable
        \/ e = "UndefinedResultLogic" /\ Bits(f, 5, 2) \notin DOMAIN ResultLogicTable}

\* C36: a step of a word whose pc_update bits or ap_update bits are an
\* undefined pattern, or whose res_logic bits are 0b11, fails with the
\* corresponding error UndefinedPcUpdate, UndefinedApUpdate or
\* UndefinedResultLogic, whatever the opcode is: the step never returns Ok
\* for a malformed word.
C36_MalformedWordFails ==
    (/\ call.op = "step"
     /\ Bits(call.word[4], 15, 1) = 0
     /\ MalformedFields(call.word[4]) # {}) =>
        /\ ~stepped.result.ok
        /\ (/\ Bits(call.word[4], 2, 3) \in DOMAIN Op1SourceTable
            /\ Bits(call.word[4], 12, 4) \in DOMAIN OpCodeTable)
                => stepped.result \in {Err(e) : e \in MalformedFields(call.word[4])}

---------------------------------------------------------------------------
(* Claims about the frame of Segment::assert_eq, checked under SegSpec.    *)

\* the call that led to the next state is an assert_eq that had to grow
\* the segment and did
Grew ==
    /\ call'.op = "assert_eq"
    /\ UGe(call'.index, seg.capacity)
    /\ call'.result # Err("OutOfMemory")

\* C37: in every state a sequence of assert_eq calls reaches, failing
\* calls included, length <= capacity, and neither length nor capacity ever
\* decreases; after a growth triggered by index i the capacity is
\* max(i + 1, (old capacity + 4) * 3 / 2), which is greater than i, and no
\* other call changes the capacity.
C37_LengthWithinCapacity ==
    [][/\ seg.length <= seg.capacity
       /\ seg'.length <= seg'.capacity
       /\ seg.length <= seg'.length
       /\ seg.capacity <= seg'.capacity
       /\ IF Grew
          THEN /\ seg'.capacity
                    = (IF call'.index + 1 > ((seg.capacity + 4) * 3) \div 2
                       THEN call'.index + 1
                       ELSE ((seg.capacity + 4) * 3) \div 2)
               /\ seg'.capacity > call'.index
               /\ seg'.capacity > seg.capacity
          ELSE seg'.capacity = seg.capacity]_vars

\* a segment of the first capacity grew by the amortized rule, for an
\* index just past its capacity
C37_Witness ==
    /\ call.op = "assert_eq"
    /\ call.result.ok
    /\ call.index = FirstCapacity
    /\ seg.capacity = ((FirstCapacity + 4) * 3) \div 2
    /\ seg.length = FirstCapacity + 1

\* C38: an assert_eq that returns Contradiction leaves the segment as it
\* was: capacity, length and the result of get at every offset; the cell
\* it was called on was known, and so below the length.
C38_ContradictionLeavesSegment ==
    [][(call'.op = "assert_eq" /\ call'.result = Err("Contradiction"))
            => /\ seg'.capacity = seg.capacity
               /\ seg'.length = seg.length
               /\ \A i \in Offsets : Segment_get(seg', i) = Segment_get(seg, i)
               /\ Segment_get(seg, call'.index).some
               /\ ULt(call'.index, seg.length)]_vars

\* an assert_eq at offset 0 of a segment that holds a cell at the first
\* capacity returned Contradiction
C38_Witness ==
    /\ call.op = "assert_eq"
    /\ call.result = Err("Contradiction")
    /\ call.index = 0
    /\ Segment_get(seg, FirstCapacity).some
    /\ Segment_get(seg, 0).some
    /\ Segment_get(seg, 0).v # call.value

\* C39: a successful assert_eq(i, v) changes at most the cell at offset i:
\* get(j) returns after the call what it returned before it for every
\* offset j # i (the cells newly below the length read None), also when
\* the call grew the segment: growth keeps every entry below the old length.
C39_AssertEqFrame ==
    [][(call'.op = "assert_eq" /\ call'.result.ok)
            => \A j \in Offsets \ {call'.index} :
                    Segment_get(seg', j) = Segment_get(seg, j)]_vars

=============================================================================
